---- MODULE Spec2Model ----
(***************************************************************************)
(* Room lifecycle of the game server in src/index.js: the rooms table, the *)
(* connection registry (playerToSocket), the per-connection binding        *)
(* (socket.data), the grace timers (pendingDisconnects and the timers the  *)
(* event loop still holds), the socket handlers that change them, and the  *)
(* per-room simulation tick (stepRoom) driven by the wall clock.           *)
(***************************************************************************)
EXTENDS Integers, Sequences, FiniteSets, TLC

\* ---------------------------------------------------------------- bounds
\* Connections that ever open during a run (each socket id is used once).
MaxSockets == 2

SocketIds == 1..MaxSockets

\* Room codes and player ids the clients send; "" is the falsy value that
\* the handlers reject with `!roomCode || !playerId`.
RoomCodes == {"R1", "R2"}
PlayerIds == {"ann", "7", "3"}
NoId == ""
RoomCodeInputs == RoomCodes \cup {NoId}
PlayerIdInputs == PlayerIds \cup {NoId}

\* maxPlayers values sent with createRoom: 0 and 5 are outside 1..4.
MaxPlayersInputs == {0, 1, 2, 5}

\* hero values sent with selectHero; NoHero is the falsy value (null, "").
NoHero == "none"
Heroes == {"knight", "mage"}
HeroInputs == Heroes \cup {NoHero}

\* world / level values sent with createRoom and setWorld, as sequences of
\* characters.
Map1 == <<"m", "a", "p", "1">>
Map2 == <<"m", "a", "p", "2">>
World2 == <<"w", "o", "r", "l", "d", "2">>
Junk == <<"j", "u", "n", "k">>
WorldRequests == {Map1, Map2, Junk}

\* canvasHeight values carried by createRoom and playerInput payloads; a
\* payload without a height gives NaN, rejected like a height below 100.
HeightInputs == {50, 700}

\* input frames sent with playerInput (left, right, jump).
InputFrames == {[left |-> FALSE, right |-> TRUE, jump |-> TRUE]}

\* ------------------------------------------------------------- constants
PLAYER_WIDTH == 45
PLAYER_HEIGHT == 55
WORLD1_BASE_Y == 620
WORLD2_BASE_Y == 820
WORLD1_MAIN_FLOOR_Y == WORLD1_BASE_Y + 40
RESPAWN_DELAY_MS == 1800

\* Positions and velocities of a PlayerState are kept in hundredths of a
\* pixel (per tick), so that 0.6 * dtScale and vy * dtScale stay integers;
\* the world blueprints are written in pixels, as in the source.
Sub(px) == 100 * px

\* BASE_PHYSICS, in hundredths of a pixel per tick.
gravity == 60
moveSpeed == 500
jumpForce == -1400
maxFallSpeed == 1800

\* --------------------------------------------------------------- helpers
Min(a, b) == IF a < b THEN a ELSE b
Max(a, b) == IF a > b THEN a ELSE b
\* Variant: the value is returned as it came.
clampNothing(n, lo, hi) == n

clamp(n, lo, hi) == Max(lo, Min(hi, n))

Put(f, k, v) == [x \in DOMAIN f \cup {k} |-> IF x = k THEN v ELSE f[x]]
Remove(f, k) == [x \in DOMAIN f \ {k} |-> f[x]]

RECURSIVE SeqFilter(_, _)
SeqFilter(s, drop) ==
  IF s = <<>> THEN <<>>
  ELSE IF Head(s) = drop THEN SeqFilter(Tail(s), drop)
  ELSE <<Head(s)>> \o SeqFilter(Tail(s), drop)

\* Array.prototype.indexOf: 0-based position, -1 when absent.
IndexOf(s, x) ==
  IF \E i \in 1..Len(s) : s[i] = x
  THEN (CHOOSE i \in 1..Len(s) : s[i] = x /\ \A j \in 1..(i - 1) : s[j] # x) - 1
  ELSE -1

\* A JavaScript object is kept as its entries in property creation order.
\* Object.keys lists the integer-like keys first, in ascending numeric
\* order, and then the other string keys in creation order.
ArrayIndex(k) == CASE k = "3" -> 3 [] k = "7" -> 7 [] OTHER -> -1

RECURSIVE AscendingKeys(_)
AscendingKeys(S) ==
  IF S = {} THEN <<>>
  ELSE LET m == CHOOSE k \in S : \A o \in S : ArrayIndex(k) <= ArrayIndex(o)
       IN <<m>> \o AscendingKeys(S \ {m})

RECURSIVE CreationOrderKeys(_)
CreationOrderKeys(entries) ==
  IF entries = <<>> THEN <<>>
  ELSE IF ArrayIndex(Head(entries).id) < 0
       THEN <<Head(entries).id>> \o CreationOrderKeys(Tail(entries))
       ELSE CreationOrderKeys(Tail(entries))

KeySet(entries) == {entries[i].id : i \in 1..Len(entries)}

ObjectKeys(entries) ==
  AscendingKeys({k \in KeySet(entries) : ArrayIndex(k) >= 0})
    \o CreationOrderKeys(entries)

HasKey(entries, k) == k \in KeySet(entries)
Entry(entries, k) == entries[CHOOSE i \in 1..Len(entries) : entries[i].id = k]

RECURSIVE DeleteKey(_, _)
DeleteKey(entries, k) ==
  IF entries = <<>> THEN <<>>
  ELSE IF Head(entries).id = k THEN DeleteKey(Tail(entries), k)
  ELSE <<Head(entries)>> \o DeleteKey(Tail(entries), k)

SetEntry(entries, k, e) ==
  IF HasKey(entries, k)
  THEN [i \in 1..Len(entries) |-> IF entries[i].id = k THEN e ELSE entries[i]]
  ELSE Append(entries, e)

\* ---------------------------------------------------------------- worlds
\* Strings that are cut or trimmed are sequences of characters; the only
\* whitespace character of the model is " ".
RECURSIVE trimStart(_)
trimStart(v) == IF v # <<>> /\ Head(v) = " " THEN trimStart(Tail(v)) ELSE v

RECURSIVE trimEnd(_)
trimEnd(v) ==
  IF v # <<>> /\ v[Len(v)] = " " THEN trimEnd(SubSeq(v, 1, Len(v) - 1)) ELSE v

\* String.prototype.trim
trim(v) == trimEnd(trimStart(v))

\* String.prototype.toLowerCase, for the letters of the model.
UpperCase == <<"M", "A", "P", "W", "O", "R", "L", "D">>
LowerCase == <<"m", "a", "p", "w", "o", "r", "l", "d">>

toLowerCase(v) ==
  [i \in 1..Len(v) |->
     IF \E k \in 1..Len(UpperCase) : UpperCase[k] = v[i]
     THEN LowerCase[CHOOSE k \in 1..Len(UpperCase) : UpperCase[k] = v[i]]
     ELSE v[i]]

\* Variant: the value is compared as it was sent.
normalizeWorldValueAsSent(value) ==
  IF value \in {<<"2">>, Map2, World2} THEN 2 ELSE 1

\* String(value ?? "").toLowerCase().trim(), then the comparison.
normalizeWorldValue(value) ==
  IF trim(toLowerCase(value)) \in {<<"2">>, Map2, World2} THEN 2 ELSE 1

\* null is modelled as 0 (no base height computed from the payload).
normalizeWorld2BaseYFromPayload(height) ==
  IF height < 100 THEN 0
  ELSE clamp(height - 80, 500, 1400)

\* A rectangle of a blueprint, in hundredths of a pixel.
Rect(x, y, w, h) ==
  [x |-> Sub(x), y |-> Sub(y), width |-> Sub(w), height |-> Sub(h)]

intersects(a, b) ==
  /\ a.x < b.x + b.width
  /\ a.x + a.width > b.x
  /\ a.y < b.y + b.height
  /\ a.y + a.height > b.y

buildWorld1Platforms ==
  LET gy == WORLD1_BASE_Y
  IN <<
     Rect(0, gy + 40, 250, 20), Rect(250, gy + 40, 5500, 20),
     Rect(320, gy + 40, 60, 20), Rect(450, gy + 40, 60, 20),
     Rect(580, gy + 40, 60, 20), Rect(710, gy + 40, 60, 20),
     Rect(840, gy + 40, 80, 20), Rect(1100, gy - 20, 100, 20),
     Rect(1280, gy - 50, 80, 20), Rect(1440, gy - 70, 80, 20),
     Rect(1600, gy - 50, 80, 20), Rect(1760, gy - 20, 100, 20),
     Rect(2000, gy + 20, 50, 20), Rect(2120, gy + 40, 50, 20),
     Rect(2240, gy + 20, 50, 20), Rect(2360, gy + 40, 50, 20),
     Rect(2480, gy + 20, 50, 20), Rect(2600, gy + 40, 50, 20),
     Rect(2720, gy + 40, 120, 20), Rect(3020, gy - 90, 100, 20),
     Rect(3200, gy - 90, 100, 20), Rect(3380, gy - 60, 80, 20),
     Rect(3540, gy - 30, 80, 20), Rect(3700, gy + 40, 60, 20),
     Rect(3850, gy + 15, 60, 20), Rect(3990, gy + 40, 60, 20),
     Rect(4130, gy + 15, 60, 20), Rect(4270, gy + 40, 60, 20),
     Rect(4410, gy + 40, 150, 20), Rect(4760, gy - 100, 120, 20),
     Rect(4960, gy - 80, 80, 20), Rect(5120, gy - 50, 80, 20),
     Rect(5280, gy - 20, 80, 20), Rect(5440, gy + 20, 100, 20),
     Rect(5620, gy + 40, 200, 20)>>

buildWorld2DangerButtons(baseY) ==
  LET gy == baseY
      xs == <<300, 530, 770, 1010, 1250, 1490, 1830, 2070,
              2310, 2550, 2790, 3060, 3300, 3540, 3780, 4020,
              4260, 4500, 4740, 4980, 5220, 5460, 5730, 5970,
              6210, 6450, 6690, 6930, 7170, 7410, 7890>>
  IN [i \in 1..Len(xs) |-> Rect(xs[i], gy + 5, 40, 35)]

buildWorld2Platforms(baseY) ==
  LET gy == baseY
  IN <<Rect(0, gy + 40, 8200, 20)>>

\* The runtime's static lists (platforms, key, door, danger buttons) are
\* functions of id and groundY (the moving and falling lists are empty in
\* both worlds); the record keeps the scalar fields, in pixels.
cloneWorldRuntime(worldId, world2BaseY) ==
  IF worldId = 2
  THEN [id |-> 2, width |-> 8200, groundY |-> world2BaseY + 40,
        hasGlobalFloor |-> TRUE, firstPlatformY |-> world2BaseY + 40]
  ELSE [id |-> 1, width |-> 6000, groundY |-> WORLD1_MAIN_FLOOR_Y,
        hasGlobalFloor |-> FALSE, firstPlatformY |-> WORLD1_BASE_Y + 40]

\* The lists and tunings of a runtime built by cloneWorldRuntime; a world-2
\* runtime was built from baseY = groundY - 40.
platforms(world) ==
  IF world.id = 2 THEN buildWorld2Platforms(world.groundY - 40)
  ELSE buildWorld1Platforms

key(world) ==
  IF world.id = 2 THEN Rect(2400, (world.groundY - 40) - 220, 40, 40)
  ELSE Rect(1950, 535, 40, 40)

door(world) ==
  IF world.id = 2 THEN Rect(4400, (world.groundY - 40) - 80, 80, 120)
  ELSE Rect(3030, 525, 55, 75)

dangerButtons(world) ==
  IF world.id = 2 THEN buildWorld2DangerButtons(world.groundY - 40)
  ELSE <<>>

stopOnRelease(world) == world.id = 2

\* ----------------------------------------------------------------- state
VARIABLES
  rooms,               \* roomCode -> room, for the rooms in the table
  playerToSocket,      \* playerId -> set of socket ids
  pendingDisconnects,  \* playerId -> id of the timer stored for it
  timers,              \* timers armed and neither fired nor cleared
  sockets,             \* socket id -> [open, roomCode, playerId], one per
                       \* connection accepted so far
  now                  \* Date.now(), in milliseconds

vars == <<rooms, playerToSocket, pendingDisconnects, timers, sockets, now>>

Unbound == [open |-> TRUE, roomCode |-> NoId, playerId |-> NoId]
Closed == [open |-> FALSE, roomCode |-> NoId, playerId |-> NoId]

EmptyMap == [k \in {} |-> k]

Init ==
  /\ rooms = EmptyMap
  /\ playerToSocket = EmptyMap
  /\ pendingDisconnects = EmptyMap
  /\ timers = {}
  /\ sockets = <<>>
  /\ now = 1000

\* io.on("connection"): a new socket, with the next id and empty data.
connection ==
  /\ Len(sockets) < MaxSockets
  /\ sockets' = Append(sockets, Unbound)
  /\ UNCHANGED <<rooms, playerToSocket, pendingDisconnects, timers, now>>

IsOpen(s) == s \in DOMAIN sockets /\ sockets[s].open

\* --------------------------------------------------------- room helpers
\* Variant: the entry is forgotten but clearTimeout is not called.
clearPendingDisconnectKeepTimer(st, playerId) ==
  IF playerId \in DOMAIN st.pending
  THEN [pending |-> Remove(st.pending, playerId), timers |-> st.timers]
  ELSE st

\* clearTimeout on the timer stored for playerId, then forget the entry.
clearPendingDisconnect(st, playerId) ==
  IF playerId \in DOMAIN st.pending
  THEN [pending |-> Remove(st.pending, playerId),
        timers |-> {t \in st.timers : t.id # st.pending[playerId]}]
  ELSE st

playerIndexOf(room, playerId) == IndexOf(room.playerOrder, playerId) + 1

colors == <<"#FF6B6B", "#4ECDC4", "#FFE66D", "#A8DADC">>

\* v.slice(0, n)
sliceTo(v, n) == SubSeq(v, 1, Min(n, Len(v)))

\* sanitizeName: String(v ?? "").trim().slice(0, 20)
sanitizeName(v) == sliceTo(trim(v), 20)

\* The digit of a player count, and `Player ${n}`.
Digits == <<"1", "2", "3", "4", "5">>
PlayerLabel(n) == <<"P", "l", "a", "y", "e", "r", " ", Digits[n]>>

\* room.players[playerId]?.name ?? ""
NameOf(room, playerId) ==
  IF HasKey(room.players, playerId)
  THEN Entry(room.players, playerId).name ELSE <<>>

\* room.players[playerId]?.hero ?? null
HeroOf(room, playerId) ==
  IF HasKey(room.players, playerId)
  THEN Entry(room.players, playerId).hero ELSE NoHero

createPlayerGameState(clientPlayerId, slot, room) ==
  [id |-> slot,
   hero |-> HeroOf(room, clientPlayerId),
   name |-> NameOf(room, clientPlayerId),
   x |-> Sub(100 + (slot - 1) * 80),
   y |-> Sub(room.worldRuntime.firstPlatformY - PLAYER_HEIGHT),
   vx |-> 0, vy |-> 0,
   width |-> Sub(PLAYER_WIDTH), height |-> Sub(PLAYER_HEIGHT),
   onGround |-> TRUE,
   color |-> colors[((slot - 1) % Len(colors)) + 1],
   dead |-> FALSE,
   prevY |-> <<>>]

\* The PlayerState ensurePlayerState returns (and stores) for a player
\* whose slot is at least 1.
ensurePlayerState(room, playerId) ==
  LET slot == playerIndexOf(room, playerId)
      p == IF playerId \in DOMAIN room.gameState.players
           THEN room.gameState.players[playerId]
           ELSE createPlayerGameState(playerId, slot, room)
  IN [p EXCEPT !.id = slot,
               !.hero = HeroOf(room, playerId),
               !.name = NameOf(room, playerId),
               !.width = Sub(PLAYER_WIDTH),
               !.height = Sub(PLAYER_HEIGHT),
               !.x = clamp(p.x, 0, Sub(room.worldRuntime.width) - Sub(PLAYER_WIDTH))]

\* The room after ensurePlayerState(room, playerId).
WithPlayerState(room, playerId) ==
  IF playerIndexOf(room, playerId) < 1 THEN room
  ELSE [room EXCEPT !.gameState.players =
          Put(room.gameState.players, playerId, ensurePlayerState(room, playerId))]

\* emitGameState rebuilds gameState.players from playerOrder before it
\* broadcasts the snapshot.
emitGameState(room) ==
  LET present == {pid \in PlayerIds :
                    /\ IndexOf(room.playerOrder, pid) >= 0
                    /\ HasKey(room.players, pid)}
  IN [room EXCEPT !.gameState.players =
        [pid \in present |-> ensurePlayerState(room, pid)]]

\* The payload of the "gameState" event emitGameState broadcasts for a
\* room it has just rebuilt.
gameStateSnapshot(room) ==
  [players |-> room.gameState.players,
   keyCollected |-> room.gameState.keyCollected,
   playersAtDoor |-> room.gameState.playersAtDoor,
   gameStatus |-> IF room.started THEN room.gameState.gameStatus ELSE "waiting",
   world |-> room.world]

allPicked(room) ==
  \A i \in 1..Len(room.players) : room.players[i].hero # NoHero

\* Variant: `some` in place of `every`.
someReady(room) ==
  \E i \in 1..Len(room.players) : room.players[i].ready

allReady(room) ==
  \A i \in 1..Len(room.players) : room.players[i].ready

\* Variant: the sockets listed for the player keep their binding.
disconnectPlayerSocketsKeepBinding(socks, p2s, playerId) == socks

\* The connection table after disconnectPlayerSocketsOnly: every open
\* socket listed for the player loses its binding.
disconnectPlayerSocketsOnly(socks, p2s, playerId) ==
  IF playerId \notin DOMAIN p2s THEN socks
  ELSE [s \in DOMAIN socks |->
          IF s \in p2s[playerId] /\ socks[s].open THEN Unbound ELSE socks[s]]

\* playerToSocket after binding socket s to playerId.
AddSocket(p2s, playerId, s) ==
  Put(p2s, playerId,
      (IF playerId \in DOMAIN p2s THEN p2s[playerId] ELSE {}) \cup {s})

Bind(socks, s, roomCode, playerId) ==
  [socks EXCEPT ![s] = [open |-> TRUE, roomCode |-> roomCode, playerId |-> playerId]]

\* The id given to a newly armed timer.
FreshTimerId(tm) ==
  CHOOSE n \in 1..(Cardinality(tm) + 1) : \A t \in tm : t.id # n

\* ---------------------------------------------------------- createRoom
NewRoom(roomCode, max, hostId, world, height) ==
  LET initialWorld == normalizeWorldValue(world)
      fromPayload == normalizeWorld2BaseYFromPayload(height)
      initialWorld2BaseY ==
        IF initialWorld = 2 /\ fromPayload # 0 THEN fromPayload ELSE WORLD2_BASE_Y
  IN [roomCode |-> roomCode,
      maxPlayers |-> max,
      hostId |-> hostId,
      started |-> FALSE,
      world |-> initialWorld,
      world2BaseY |-> initialWorld2BaseY,
      worldRuntime |-> cloneWorldRuntime(initialWorld, initialWorld2BaseY),
      playerOrder |-> <<hostId>>,
      players |-> <<[id |-> hostId, hero |-> NoHero, ready |-> FALSE,
                     name |-> PlayerLabel(1)]>>,
      gameState |-> [players |-> EmptyMap, keyCollected |-> FALSE,
                     playersAtDoor |-> <<>>, gameStatus |-> "waiting",
                     world |-> initialWorld],
      inputs |-> EmptyMap,
      loopHandle |-> FALSE,
      intervals |-> 0,
      lastStepAt |-> 0,
      deadUntil |-> 0]

\* Variant: the handler without its "Room code already exists" check.
createRoomReplyNoExistsCheck(roomCode, maxPlayers, hostId) ==
  IF roomCode = NoId \/ hostId = NoId \/ maxPlayers < 1 \/ maxPlayers > 4
  THEN "createDenied"
  ELSE "joinSuccess"

\* What the createRoom handler sends to its own socket.
createRoomReply(roomCode, maxPlayers, hostId) ==
  IF roomCode = NoId \/ hostId = NoId \/ maxPlayers < 1 \/ maxPlayers > 4
  THEN "createDenied"
  ELSE IF roomCode \in DOMAIN rooms THEN "createDenied"
  ELSE "joinSuccess"

createRoom(s, roomCode, maxPlayers, hostId, world, height) ==
  /\ IsOpen(s)
  /\ UNCHANGED now
  /\ IF createRoomReply(roomCode, maxPlayers, hostId) = "createDenied"
     THEN UNCHANGED <<rooms, playerToSocket, pendingDisconnects, timers, sockets>>
     ELSE LET st == clearPendingDisconnect(
                      [pending |-> pendingDisconnects, timers |-> timers], hostId)
              room == NewRoom(roomCode, maxPlayers, hostId, world, height)
          IN /\ sockets' = Bind(sockets, s, roomCode, hostId)
             /\ playerToSocket' = AddSocket(playerToSocket, hostId, s)
             /\ pendingDisconnects' = st.pending
             /\ timers' = st.timers
             /\ rooms' = Put(rooms, roomCode, emitGameState(room))

\* ------------------------------------------------------------ joinRoom
\* Variant: the handler without its "Room full" check.
joinRoomReplyNoFullCheck(roomCode, playerId) ==
  IF roomCode = NoId \/ playerId = NoId THEN "joinDenied"
  ELSE IF roomCode \notin DOMAIN rooms THEN "joinDenied"
  ELSE IF rooms[roomCode].started /\ ~HasKey(rooms[roomCode].players, playerId)
  THEN "joinDenied"
  ELSE "joinSuccess"

\* Variant: the handler without its "Game already started" check.
joinRoomReplyNoStartedCheck(roomCode, playerId) ==
  IF roomCode = NoId \/ playerId = NoId THEN "joinDenied"
  ELSE IF roomCode \notin DOMAIN rooms THEN "joinDenied"
  ELSE IF /\ ~HasKey(rooms[roomCode].players, playerId)
          /\ Len(rooms[roomCode].players) >= rooms[roomCode].maxPlayers
  THEN "joinDenied"
  ELSE "joinSuccess"

\* What the joinRoom handler sends to its own socket.
joinRoomReply(roomCode, playerId) ==
  IF roomCode = NoId \/ playerId = NoId THEN "joinDenied"
  ELSE IF roomCode \notin DOMAIN rooms THEN "joinDenied"
  ELSE IF rooms[roomCode].started /\ ~HasKey(rooms[roomCode].players, playerId)
  THEN "joinDenied"
  ELSE IF /\ ~HasKey(rooms[roomCode].players, playerId)
          /\ Len(rooms[roomCode].players) >= rooms[roomCode].maxPlayers
  THEN "joinDenied"
  ELSE "joinSuccess"

joinRoom(s, roomCode, playerId) ==
  /\ IsOpen(s)
  /\ UNCHANGED now
  /\ IF roomCode = NoId \/ playerId = NoId \/ roomCode \notin DOMAIN rooms
     THEN UNCHANGED <<rooms, playerToSocket, pendingDisconnects, timers, sockets>>
     ELSE LET room == rooms[roomCode]
              st == clearPendingDisconnect(
                      [pending |-> pendingDisconnects, timers |-> timers], playerId)
              member == HasKey(room.players, playerId)
              count == Len(room.players)
              detached == IF member
                          THEN disconnectPlayerSocketsOnly(sockets, playerToSocket, playerId)
                          ELSE sockets
              registry == IF member THEN Remove(playerToSocket, playerId)
                          ELSE playerToSocket
              joined == IF member THEN room
                        ELSE [room EXCEPT
                                !.players = Append(@, [id |-> playerId,
                                                       hero |-> NoHero,
                                                       ready |-> FALSE,
                                                       name |-> PlayerLabel(count + 1)]),
                                !.playerOrder = Append(@, playerId)]
          IN /\ pendingDisconnects' = st.pending
             /\ timers' = st.timers
             /\ IF joinRoomReply(roomCode, playerId) = "joinDenied"
                THEN UNCHANGED <<rooms, playerToSocket, sockets>>
                ELSE /\ rooms' = [rooms EXCEPT ![roomCode] = emitGameState(joined)]
                     /\ sockets' = Bind(detached, s, roomCode, playerId)
                     /\ playerToSocket' = AddSocket(registry, playerId, s)

\* ------------------------------------------------ commands of a bound socket
\* `if (!roomCode || !playerId) return;` and the lookup of the room.
BoundRoom(s) ==
  /\ sockets[s].roomCode # NoId
  /\ sockets[s].playerId # NoId
  /\ sockets[s].roomCode \in DOMAIN rooms

\* The socket is bound to a room of the table and to a player of that room.
BoundMember(s) ==
  /\ BoundRoom(s)
  /\ HasKey(rooms[sockets[s].roomCode].players, sockets[s].playerId)

Ignored == UNCHANGED <<rooms, playerToSocket, pendingDisconnects, timers, sockets>>

\* ------------------------------------------------------- setPlayerName
setPlayerName(s, name) ==
  /\ IsOpen(s)
  /\ UNCHANGED now
  /\ IF ~BoundMember(s) THEN Ignored
     ELSE LET roomCode == sockets[s].roomCode
              playerId == sockets[s].playerId
              room == rooms[roomCode]
              clean == sanitizeName(name)
              named == [room EXCEPT
                          !.players =
                             SetEntry(@, playerId,
                                      [Entry(room.players, playerId) EXCEPT
                                         !.name = clean]),
                          !.gameState.players =
                             IF playerId \in DOMAIN @
                             THEN [@ EXCEPT ![playerId].name = clean]
                             ELSE @]
          IN IF clean = <<>> THEN Ignored
             ELSE /\ rooms' = [rooms EXCEPT ![roomCode] = emitGameState(named)]
                  /\ UNCHANGED <<playerToSocket, pendingDisconnects, timers, sockets>>

\* Variant: `pid === playerId` in place of `pid !== playerId`.
TakenHeroesOwn(room, playerId) ==
  {room.players[i].hero : i \in
     {j \in 1..Len(room.players) :
        /\ room.players[j].id = playerId
        /\ room.players[j].hero # NoHero}}

\* The heroes held by the players of the room other than playerId.
TakenHeroes(room, playerId) ==
  {room.players[i].hero : i \in
     {j \in 1..Len(room.players) :
        /\ room.players[j].id # playerId
        /\ room.players[j].hero # NoHero}}

\* What the selectHero handler sends to its own socket.
selectHeroReply(s, hero) ==
  IF /\ BoundMember(s)
     /\ hero \in TakenHeroes(rooms[sockets[s].roomCode], sockets[s].playerId)
  THEN "heroDenied" ELSE "none"

\* Variant: the handler without `room.players[playerId].ready = false`.
selectHeroKeepsReady(s, hero) ==
  /\ IsOpen(s)
  /\ UNCHANGED now
  /\ IF ~BoundMember(s) THEN Ignored
     ELSE LET roomCode == sockets[s].roomCode
              playerId == sockets[s].playerId
              room == rooms[roomCode]
              picked == [room EXCEPT !.players =
                           SetEntry(@, playerId,
                                    [Entry(room.players, playerId) EXCEPT
                                       !.hero = hero])]
          IN IF selectHeroReply(s, hero) = "heroDenied" THEN Ignored
             ELSE /\ rooms' = [rooms EXCEPT ![roomCode] =
                                 emitGameState(WithPlayerState(picked, playerId))]
                  /\ UNCHANGED <<playerToSocket, pendingDisconnects, timers, sockets>>

selectHero(s, hero) ==
  /\ IsOpen(s)
  /\ UNCHANGED now
  /\ IF ~BoundMember(s) THEN Ignored
     ELSE LET roomCode == sockets[s].roomCode
              playerId == sockets[s].playerId
              room == rooms[roomCode]
              picked == [room EXCEPT !.players =
                           SetEntry(@, playerId,
                                    [Entry(room.players, playerId) EXCEPT
                                       !.hero = hero, !.ready = FALSE])]
          IN IF selectHeroReply(s, hero) = "heroDenied" THEN Ignored
             ELSE /\ rooms' = [rooms EXCEPT ![roomCode] =
                                 emitGameState(WithPlayerState(picked, playerId))]
                  /\ UNCHANGED <<playerToSocket, pendingDisconnects, timers, sockets>>

\* What the setReady handler sends to its own socket.
setReadyReply(s) ==
  IF /\ BoundMember(s)
     /\ Entry(rooms[sockets[s].roomCode].players, sockets[s].playerId).hero = NoHero
  THEN "readyDenied" ELSE "none"

\* Variant: p.ready is written before the hero check.
setReadyBeforeHeroCheck(s, ready) ==
  /\ IsOpen(s)
  /\ UNCHANGED now
  /\ IF ~BoundMember(s) THEN Ignored
     ELSE /\ rooms' = [rooms EXCEPT ![sockets[s].roomCode].players =
                         SetEntry(@, sockets[s].playerId,
                                  [Entry(@, sockets[s].playerId) EXCEPT !.ready = ready])]
          /\ UNCHANGED <<playerToSocket, pendingDisconnects, timers, sockets>>

setReady(s, ready) ==
  /\ IsOpen(s)
  /\ UNCHANGED now
  /\ IF ~BoundMember(s) THEN Ignored
     ELSE LET roomCode == sockets[s].roomCode
              playerId == sockets[s].playerId
          IN IF setReadyReply(s) = "readyDenied" THEN Ignored
             ELSE /\ rooms' = [rooms EXCEPT ![roomCode].players =
                                 SetEntry(@, playerId,
                                          [Entry(@, playerId) EXCEPT !.ready = ready])]
                  /\ UNCHANGED <<playerToSocket, pendingDisconnects, timers, sockets>>

\* Variant: setInterval is called whether or not the room has a loopHandle.
startRoomLoopUnguarded(room) ==
  [room EXCEPT !.loopHandle = TRUE, !.intervals = @ + 1, !.lastStepAt = now]

\* startRoomLoop: one interval per room, kept in loopHandle; a room that
\* already has its interval is left alone. `intervals` counts the live
\* setInterval timers that call stepRoom for the room.
startRoomLoop(room) ==
  IF room.loopHandle THEN room
  ELSE [room EXCEPT !.loopHandle = TRUE, !.intervals = @ + 1,
                    !.lastStepAt = now]

StartedRoom(room) ==
  [room EXCEPT !.started = TRUE,
               !.worldRuntime = cloneWorldRuntime(room.world, room.world2BaseY),
               !.gameState = [players |-> EmptyMap, keyCollected |-> FALSE,
                              playersAtDoor |-> <<>>, gameStatus |-> "playing",
                              world |-> room.world],
               !.deadUntil = 0]

\* What the startGameNow handler sends to its own socket.
startGameNowReply(s) ==
  IF /\ BoundRoom(s)
     /\ \/ rooms[sockets[s].roomCode].hostId # sockets[s].playerId
        \/ ~allPicked(rooms[sockets[s].roomCode])
        \/ ~allReady(rooms[sockets[s].roomCode])
  THEN "startDenied" ELSE "none"

startGameNow(s) ==
  /\ IsOpen(s)
  /\ UNCHANGED now
  /\ IF ~BoundRoom(s) THEN Ignored
     ELSE LET roomCode == sockets[s].roomCode
              room == rooms[roomCode]
          IN IF startGameNowReply(s) = "startDenied" THEN Ignored
             ELSE /\ rooms' = [rooms EXCEPT ![roomCode] =
                                 startRoomLoop(emitGameState(StartedRoom(room)))]
                  /\ UNCHANGED <<playerToSocket, pendingDisconnects, timers, sockets>>

\* --------------------------------------------------------- playerInput
\* Variant: the base height follows every report, however small the change.
syncRoomWorld2HeightAnyChange(room, height) ==
  LET nextBaseY == normalizeWorld2BaseYFromPayload(height)
      runtime == cloneWorldRuntime(2, nextBaseY)
      deltaY == runtime.groundY - room.worldRuntime.groundY
      moved(p) ==
        LET q == [p EXCEPT !.y = p.y + Sub(deltaY),
                           !.x = clamp(p.x, 0, Sub(runtime.width) - p.width)]
        IN IF q.y + q.height >= Sub(runtime.groundY)
           THEN [q EXCEPT !.y = Sub(runtime.groundY) - q.height, !.vy = 0,
                          !.onGround = TRUE]
           ELSE q
  IN IF room.world # 2 \/ nextBaseY = 0 THEN room
     ELSE [room EXCEPT !.world2BaseY = nextBaseY,
                       !.worldRuntime = runtime,
                       !.gameState.players =
                          [pid \in DOMAIN room.gameState.players |->
                             moved(room.gameState.players[pid])]]

syncRoomWorld2Height(room, height) ==
  LET nextBaseY == normalizeWorld2BaseYFromPayload(height)
      prevBaseY == room.world2BaseY
      prevGroundY == room.worldRuntime.groundY
      runtime == cloneWorldRuntime(2, nextBaseY)
      nextGroundY == runtime.groundY
      deltaY == nextGroundY - prevGroundY
      moved(p) ==
        LET q == [p EXCEPT !.y = p.y + Sub(deltaY),
                           !.x = clamp(p.x, 0, Sub(runtime.width) - p.width)]
        IN IF q.y + q.height >= Sub(nextGroundY)
           THEN [q EXCEPT !.y = Sub(nextGroundY) - q.height, !.vy = 0,
                          !.onGround = TRUE]
           ELSE q
  IN IF room.world # 2 \/ nextBaseY = 0 THEN room
     ELSE IF (IF nextBaseY >= prevBaseY THEN nextBaseY - prevBaseY
              ELSE prevBaseY - nextBaseY) < 2 THEN room
     ELSE [room EXCEPT !.world2BaseY = nextBaseY,
                       !.worldRuntime = runtime,
                       !.gameState.players =
                          [pid \in DOMAIN room.gameState.players |->
                             moved(room.gameState.players[pid])]]

updateInput(s, frame, height) ==
  /\ IsOpen(s)
  /\ UNCHANGED now
  /\ IF ~BoundRoom(s) THEN Ignored
     ELSE LET roomCode == sockets[s].roomCode
              playerId == sockets[s].playerId
              room == rooms[roomCode]
              synced == syncRoomWorld2Height(room, height)
          IN IF ~room.started THEN Ignored
             ELSE /\ rooms' = [rooms EXCEPT ![roomCode] =
                                 [synced EXCEPT !.inputs = Put(@, playerId, frame)]]
                  /\ UNCHANGED <<playerToSocket, pendingDisconnects, timers, sockets>>

\* ------------------------------------------------- setWorld / setLevel
\* Variant: the fresh gameState keeps the world of the old one.
applyWorldSelectionKeepGameWorld(room, requestedWorld) ==
  LET worldNum == normalizeWorldValue(requestedWorld)
  IN emitGameState(
       [room EXCEPT !.world = worldNum,
                    !.worldRuntime = cloneWorldRuntime(worldNum, room.world2BaseY),
                    !.gameState = [players |-> EmptyMap, keyCollected |-> FALSE,
                                   playersAtDoor |-> <<>>,
                                   gameStatus |-> IF room.started THEN "playing"
                                                  ELSE "waiting",
                                   world |-> room.gameState.world],
                    !.inputs = EmptyMap,
                    !.deadUntil = 0])

\* Variant: the fresh gameState is "playing" whether the room is started or
\* not.
applyWorldSelectionAlwaysPlaying(room, requestedWorld) ==
  LET worldNum == normalizeWorldValue(requestedWorld)
  IN emitGameState(
       [room EXCEPT !.world = worldNum,
                    !.worldRuntime = cloneWorldRuntime(worldNum, room.world2BaseY),
                    !.gameState = [players |-> EmptyMap, keyCollected |-> FALSE,
                                   playersAtDoor |-> <<>>,
                                   gameStatus |-> "playing",
                                   world |-> worldNum],
                    !.inputs = EmptyMap,
                    !.deadUntil = 0])

applyWorldSelection(room, requestedWorld) ==
  LET worldNum == normalizeWorldValue(requestedWorld)
  IN emitGameState(
       [room EXCEPT !.world = worldNum,
                    !.worldRuntime = cloneWorldRuntime(worldNum, room.world2BaseY),
                    !.gameState = [players |-> EmptyMap, keyCollected |-> FALSE,
                                   playersAtDoor |-> <<>>,
                                   gameStatus |-> IF room.started THEN "playing"
                                                  ELSE "waiting",
                                   world |-> worldNum],
                    !.inputs = EmptyMap,
                    !.deadUntil = 0])

setWorld(s, world) ==
  /\ IsOpen(s)
  /\ UNCHANGED now
  /\ IF ~BoundRoom(s) THEN Ignored
     ELSE LET roomCode == sockets[s].roomCode
              room == rooms[roomCode]
          IN IF room.hostId # sockets[s].playerId THEN Ignored
             ELSE /\ rooms' = [rooms EXCEPT ![roomCode] =
                                 applyWorldSelection(room, world)]
                  /\ UNCHANGED <<playerToSocket, pendingDisconnects, timers, sockets>>

\* ---------------------------------------------------------- simulation
TICK_RATE == 60

\* The frame applyPlayerStep uses for a player that has none stored.
NoInput == [left |-> FALSE, right |-> FALSE, jump |-> FALSE]

\* dtScale, in hundredths: clamp(elapsedMs / (1000 / TICK_RATE), 0.5, 2.5).
dtScale(elapsedMs) == clamp((elapsedMs * TICK_RATE) \div 10, 50, 250)

\* v * dtScale; exact for the elapsed times of ElapsedMs.
Scaled(v, dt) == (v * dt) \div 100

\* Math.pow(world.friction, dtScale), in thousandths: friction is 1 in
\* world 1 and 0.85 in world 2 (0.85^0.5, 0.85^1.5 and 0.85^2.5 rounded).
frictionPow(world, dt) ==
  IF world.id # 2 THEN 1000
  ELSE CASE dt = 50 -> 922 [] dt = 150 -> 784 [] dt = 250 -> 666
         [] OTHER -> 850

\* vx after `vx *= pow(friction, dtScale); if (|vx| < 0.1) vx = 0`.
Slowed(vx, world, dt) ==
  LET f == frictionPow(world, dt)
      v == IF vx >= 0 THEN (vx * f) \div 1000 ELSE 0 - (((0 - vx) * f) \div 1000)
  IN IF v > -10 /\ v < 10 THEN 0 ELSE v

\* The element of a one-element set. TheOne({F(v) : v \in {e}}) is F applied
\* to the value of e: a local variable of the code, computed once and then
\* used.
TheOne(S) == CHOOSE r \in S : TRUE

\* The index of the first platform at or after `from` that the rectangle
\* intersects, 0 when there is none: the platform loops do nothing for the
\* platforms in between.
NextHit(rect, plats, from) ==
  LET hits == {i \in from..Len(plats) : intersects(rect, plats[i])}
  IN IF hits = {} THEN 0 ELSE CHOOSE i \in hits : \A j \in hits : i <= j

\* The horizontal loop over the collidable platforms, in list order, from
\* the platform at index `from` on.
RECURSIVE HorizontalPass(_, _, _, _)
HorizontalPass(player, plats, from, prevX) ==
  LET AfterHit(i) ==
        LET plat == plats[i]
            hit == [player EXCEPT
                      !.x = IF player.vx > 0 THEN plat.x - player.width
                            ELSE IF player.vx < 0 THEN plat.x + plat.width
                            ELSE prevX,
                      !.vx = 0]
            Rest(p) == HorizontalPass(p, plats, i + 1, prevX)
        IN IF i = 0 THEN player ELSE TheOne({Rest(v) : v \in {hit}})
  IN TheOne({AfterHit(v) : v \in {NextHit(player, plats, from)}})

\* The vertical loop: land on a platform crossed from above, or stop under a
\* platform hit from below.
RECURSIVE VerticalPass(_, _, _, _)
VerticalPass(player, plats, from, prevY) ==
  LET AfterHit(i) ==
        LET plat == plats[i]
            prevBottom == prevY + player.height
            currBottom == player.y + player.height
            platTop == plat.y
            platBottom == plat.y + plat.height
            next ==
              IF prevBottom <= platTop /\ currBottom >= platTop /\ player.vy >= 0
              THEN [player EXCEPT !.y = platTop - player.height, !.vy = 0,
                                  !.onGround = TRUE]
              ELSE IF prevY >= platBottom /\ player.y <= platBottom /\ player.vy < 0
              THEN [player EXCEPT !.y = platBottom, !.vy = 0]
              ELSE player
            Rest(p) == VerticalPass(p, plats, i + 1, prevY)
        IN IF i = 0 THEN player ELSE TheOne({Rest(v) : v \in {next}})
  IN TheOne({AfterHit(v) : v \in {NextHit(player, plats, from)}})

\* Object.entries(room.gameState.players): the object is filled in
\* playerOrder order by emitGameState.
PlayerStateKeys(room) ==
  LET held(pid) == pid \in DOMAIN room.gameState.players
      order == SelectSeq(room.playerOrder, held)
  IN ObjectKeys([i \in 1..Len(order) |-> [id |-> order[i]]])

\* prevY of a PlayerState that has not stepped yet is undefined, and the
\* current y is used in its place.
PrevYOf(p) == IF p.prevY = <<>> THEN p.y ELSE p.prevY[1]

\* Variant: self is always put below the other player.
ResolveAgainstSinking(self, other, world) ==
  [self EXCEPT !.y = other.y + other.height, !.vy = 0]

\* self after the resolution against one other player.
ResolveAgainst(self, other, world) ==
  LET overlapX1 == self.x + self.width - other.x
      overlapX2 == other.x + other.width - self.x
      overlapY1 == self.y + self.height - other.y
      overlapY2 == other.y + other.height - self.y
      minOverlapX == Min(overlapX1, overlapX2)
      minOverlapY == Min(overlapY1, overlapY2)
      selfPrevY == PrevYOf(self)
      otherPrevY == PrevYOf(other)
      selfBottom == self.y + self.height
      otherBottom == other.y + other.height
      selfPrevBottom == selfPrevY + self.height
      otherPrevBottom == otherPrevY + other.height
      landingOnOther ==
        /\ self.vy >= 0
        /\ self.y < other.y
        /\ selfPrevBottom <= other.y + Sub(12)
        /\ selfBottom >= other.y
      hittingUnderOther ==
        /\ self.vy < 0
        /\ selfPrevY >= otherPrevBottom - Sub(8)
        /\ self.y <= otherBottom
      onTop == [self EXCEPT !.y = other.y - self.height, !.vy = 0,
                            !.onGround = TRUE]
  IN IF minOverlapX < minOverlapY
     THEN [self EXCEPT
             !.x = clamp(IF self.x < other.x THEN self.x - minOverlapX
                         ELSE self.x + minOverlapX,
                         0, Sub(world.width) - self.width),
             !.vx = 0]
     ELSE IF landingOnOther THEN onTop
     ELSE IF hittingUnderOther THEN [self EXCEPT !.y = otherBottom, !.vy = 0]
     ELSE IF self.y < other.y THEN onTop
     ELSE self

\* Variant: a dead player is resolved against like a living one.
RECURSIVE ResolvePassWithDead(_, _, _, _)
ResolvePassWithDead(self, selfId, keys, room) ==
  IF keys = <<>> THEN self
  ELSE LET otherId == Head(keys)
           other == room.gameState.players[otherId]
           next == IF otherId = selfId \/ ~intersects(self, other)
                   THEN self
                   ELSE ResolveAgainst(self, other, room.worldRuntime)
           Rest(s) == ResolvePassWithDead(s, selfId, Tail(keys), room)
       IN TheOne({Rest(v) : v \in {next}})

RECURSIVE ResolvePass(_, _, _, _)
ResolvePass(self, selfId, keys, room) ==
  IF keys = <<>> THEN self
  ELSE LET otherId == Head(keys)
           other == room.gameState.players[otherId]
           next == IF otherId = selfId \/ other.dead \/ ~intersects(self, other)
                   THEN self
                   ELSE ResolveAgainst(self, other, room.worldRuntime)
           Rest(s) == ResolvePass(s, selfId, Tail(keys), room)
       IN TheOne({Rest(v) : v \in {next}})

\* The room after resolvePlayerCollisions(room, selfId): only self changes.
resolvePlayerCollisions(room, selfId) ==
  IF selfId \notin DOMAIN room.gameState.players THEN room
  ELSE [room EXCEPT !.gameState.players[selfId] =
          ResolvePass(@, selfId, PlayerStateKeys(room), room)]

\* Variant: a jump does not need the ground.
HorizontalStepAirJump(player, input, world, dt) ==
  LET vx == IF input.left THEN 0 - moveSpeed
            ELSE IF input.right THEN moveSpeed
            ELSE IF stopOnRelease(world) /\ player.onGround THEN 0
            ELSE Slowed(player.vx, world, dt)
      jumps == input.jump
      shifted ==
        [player EXCEPT
           !.vx = vx,
           !.vy = IF jumps THEN jumpForce ELSE player.vy,
           !.onGround = IF jumps THEN FALSE ELSE player.onGround,
           !.x = clamp(player.x + Scaled(vx, dt), 0,
                       Sub(world.width) - player.width)]
      Pass(p) == HorizontalPass(p, platforms(world), 1, player.x)
  IN TheOne({Pass(v) : v \in {shifted}})

\* The player after the intent, the jump and the horizontal step with its
\* platform loop.
HorizontalStep(player, input, world, dt) ==
  LET vx == IF input.left THEN 0 - moveSpeed
            ELSE IF input.right THEN moveSpeed
            ELSE IF stopOnRelease(world) /\ player.onGround THEN 0
            ELSE Slowed(player.vx, world, dt)
      jumps == input.jump /\ player.onGround
      shifted ==
        [player EXCEPT
           !.vx = vx,
           !.vy = IF jumps THEN jumpForce ELSE player.vy,
           !.onGround = IF jumps THEN FALSE ELSE player.onGround,
           !.x = clamp(player.x + Scaled(vx, dt), 0,
                       Sub(world.width) - player.width)]
      Pass(p) == HorizontalPass(p, platforms(world), 1, player.x)
  IN TheOne({Pass(v) : v \in {shifted}})

\* Variant: the vertical step without the cap of maxFallSpeed.
VerticalStepUncapped(player, world, dt) ==
  LET prevY == player.y
      vy == player.vy + Scaled(gravity, dt)
      fallen == [player EXCEPT !.prevY = <<prevY>>, !.vy = vy,
                               !.y = prevY + Scaled(vy, dt),
                               !.onGround = FALSE]
      Pass(p) == VerticalPass(p, platforms(world), 1, prevY)
      Floored(vertical) ==
        IF /\ world.hasGlobalFloor
           /\ vertical.y + vertical.height >= Sub(world.groundY)
        THEN [vertical EXCEPT !.y = Sub(world.groundY) - vertical.height,
                              !.vy = 0, !.onGround = TRUE]
        ELSE vertical
      Landed(p) == TheOne({Floored(v) : v \in {Pass(p)}})
  IN TheOne({Landed(v) : v \in {fallen}})

\* The player after gravity, the vertical step with its platform loop and
\* the global floor.
VerticalStep(player, world, dt) ==
  LET prevY == player.y
      vy == Min(player.vy + Scaled(gravity, dt), maxFallSpeed)
      fallen == [player EXCEPT !.prevY = <<prevY>>, !.vy = vy,
                               !.y = prevY + Scaled(vy, dt),
                               !.onGround = FALSE]
      Pass(p) == VerticalPass(p, platforms(world), 1, prevY)
      Floored(vertical) ==
        IF /\ world.hasGlobalFloor
           /\ vertical.y + vertical.height >= Sub(world.groundY)
        THEN [vertical EXCEPT !.y = Sub(world.groundY) - vertical.height,
                              !.vy = 0, !.onGround = TRUE]
        ELSE vertical
      Landed(p) == TheOne({Floored(v) : v \in {Pass(p)}})
  IN TheOne({Landed(v) : v \in {fallen}})

\* Variant: a fall-out while the round is already dead leaves deadUntil as
\* the first death set it.
applyPlayerStepKeepDeadline(room, playerId, dt, t) ==
  LET world == room.worldRuntime
      input == IF playerId \in DOMAIN room.inputs THEN room.inputs[playerId]
               ELSE NoInput
      Moved(ensured) ==
        LET player == ensured.gameState.players[playerId]
            Vertical(horizontal) == VerticalStep(horizontal, world, dt)
            Stepped(floored) ==
              IF floored.y > Sub(world.groundY + 300)
              THEN [ensured EXCEPT
                      !.gameState.players[playerId] = [floored EXCEPT !.dead = TRUE],
                      !.gameState.gameStatus = "dead",
                      !.deadUntil = IF ensured.gameState.gameStatus = "dead"
                                    THEN @ ELSE t + RESPAWN_DELAY_MS]
              ELSE [ensured EXCEPT !.gameState.players[playerId] = floored]
            Resolved(stepped) == resolvePlayerCollisions(stepped, playerId)
        IN IF player.dead THEN ensured
           ELSE TheOne({Resolved(v) :
                          v \in {Stepped(w) :
                                   w \in {Vertical(h) :
                                            h \in {HorizontalStep(player, input,
                                                                  world, dt)}}}})
  IN IF playerIndexOf(room, playerId) < 1 THEN room
     ELSE TheOne({Moved(v) : v \in {WithPlayerState(room, playerId)}})

\* The room after applyPlayerStep(room, playerId, dtScale) run at time t.
applyPlayerStep(room, playerId, dt, t) ==
  LET world == room.worldRuntime
      input == IF playerId \in DOMAIN room.inputs THEN room.inputs[playerId]
               ELSE NoInput
      Moved(ensured) ==
        LET player == ensured.gameState.players[playerId]
            Vertical(horizontal) == VerticalStep(horizontal, world, dt)
            Stepped(floored) ==
              IF floored.y > Sub(world.groundY + 300)
              THEN [ensured EXCEPT
                      !.gameState.players[playerId] = [floored EXCEPT !.dead = TRUE],
                      !.gameState.gameStatus = "dead",
                      !.deadUntil = t + RESPAWN_DELAY_MS]
              ELSE [ensured EXCEPT !.gameState.players[playerId] = floored]
            Resolved(stepped) == resolvePlayerCollisions(stepped, playerId)
        IN IF player.dead THEN ensured
           ELSE TheOne({Resolved(v) :
                          v \in {Stepped(w) :
                                   w \in {Vertical(h) :
                                            h \in {HorizontalStep(player, input,
                                                                  world, dt)}}}})
  IN IF playerIndexOf(room, playerId) < 1 THEN room
     ELSE TheOne({Moved(v) : v \in {WithPlayerState(room, playerId)}})

\* The players of playerOrder that are still in room.players.
PresentPlayers(room) ==
  LET present(pid) == HasKey(room.players, pid)
  IN SelectSeq(room.playerOrder, present)

RECURSIVE RespawnAll(_, _)
RespawnAll(room, pids) ==
  LET Rest(r) == RespawnAll(r, Tail(pids))
  IN IF pids = <<>> THEN room
     ELSE TheOne({Rest(v) :
                    v \in {[room EXCEPT !.gameState.players =
                             Put(@, Head(pids),
                                 createPlayerGameState(Head(pids),
                                                       playerIndexOf(room, Head(pids)),
                                                       room))]}})

\* Variant: the reset leaves room.deadUntil as it was.
resetRoundAfterDeathKeepDeadline(room) ==
  LET fresh == [room EXCEPT
                  !.worldRuntime = cloneWorldRuntime(room.world, room.world2BaseY),
                  !.gameState.keyCollected = FALSE,
                  !.gameState.playersAtDoor = <<>>,
                  !.gameState.gameStatus = "playing"]
  IN RespawnAll(fresh, PresentPlayers(fresh))

resetRoundAfterDeath(room) ==
  LET fresh == [room EXCEPT
                  !.worldRuntime = cloneWorldRuntime(room.world, room.world2BaseY),
                  !.gameState.keyCollected = FALSE,
                  !.gameState.playersAtDoor = <<>>,
                  !.gameState.gameStatus = "playing"]
  IN [RespawnAll(fresh, PresentPlayers(fresh)) EXCEPT !.deadUntil = 0]

\* A PlayerState that exists and is not dead.
Alive(room, pid) ==
  /\ pid \in DOMAIN room.gameState.players
  /\ ~room.gameState.players[pid].dead

\* Variant: keyCollected follows the key's contact and is not latched.
evaluateGameStateKeyNotLatched(room, t) ==
  LET world == room.worldRuntime
      players == room.gameState.players
      playerIds == PresentPlayers(room)
      atKey == \E i \in 1..Len(playerIds) :
                 /\ Alive(room, playerIds[i])
                 /\ intersects(players[playerIds[i]], key(world))
      keyed == [room EXCEPT !.gameState.keyCollected = atKey]
      touchedDanger ==
        \E i \in 1..Len(playerIds) :
          /\ Alive(room, playerIds[i])
          /\ \E b \in 1..Len(dangerButtons(world)) :
               intersects(players[playerIds[i]], dangerButtons(world)[b])
      inDoor(pid) == Alive(room, pid) /\ intersects(players[pid], door(world))
      atDoor == SelectSeq(playerIds, inDoor)
      doored == [keyed EXCEPT !.gameState.playersAtDoor =
                   [i \in 1..Len(atDoor) |-> players[atDoor[i]].id]]
  IN IF room.gameState.gameStatus = "dead"
     THEN IF room.deadUntil # 0 /\ t >= room.deadUntil
          THEN resetRoundAfterDeath(room)
          ELSE room
     ELSE IF room.world = 2 /\ touchedDanger
     THEN [keyed EXCEPT !.gameState.gameStatus = "dead",
                        !.deadUntil = t + RESPAWN_DELAY_MS]
     ELSE IF keyed.gameState.keyCollected
     THEN IF Len(playerIds) > 0 /\ Len(atDoor) = Len(playerIds)
          THEN [doored EXCEPT !.gameState.gameStatus = "won"]
          ELSE [doored EXCEPT !.gameState.gameStatus = "playing"]
     ELSE [keyed EXCEPT !.gameState.gameStatus = "playing"]

\* Variant: the round is won as soon as one player is at the door.
evaluateGameStateOneAtDoor(room, t) ==
  LET world == room.worldRuntime
      players == room.gameState.players
      playerIds == PresentPlayers(room)
      atKey == \E i \in 1..Len(playerIds) :
                 /\ Alive(room, playerIds[i])
                 /\ intersects(players[playerIds[i]], key(world))
      keyed == IF ~room.gameState.keyCollected /\ atKey
               THEN [room EXCEPT !.gameState.keyCollected = TRUE]
               ELSE room
      touchedDanger ==
        \E i \in 1..Len(playerIds) :
          /\ Alive(room, playerIds[i])
          /\ \E b \in 1..Len(dangerButtons(world)) :
               intersects(players[playerIds[i]], dangerButtons(world)[b])
      inDoor(pid) == Alive(room, pid) /\ intersects(players[pid], door(world))
      atDoor == SelectSeq(playerIds, inDoor)
      doored == [keyed EXCEPT !.gameState.playersAtDoor =
                   [i \in 1..Len(atDoor) |-> players[atDoor[i]].id]]
  IN IF room.gameState.gameStatus = "dead"
     THEN IF room.deadUntil # 0 /\ t >= room.deadUntil
          THEN resetRoundAfterDeath(room)
          ELSE room
     ELSE IF room.world = 2 /\ touchedDanger
     THEN [keyed EXCEPT !.gameState.gameStatus = "dead",
                        !.deadUntil = t + RESPAWN_DELAY_MS]
     ELSE IF keyed.gameState.keyCollected
     THEN IF Len(playerIds) > 0 /\ Len(atDoor) > 0
          THEN [doored EXCEPT !.gameState.gameStatus = "won"]
          ELSE [doored EXCEPT !.gameState.gameStatus = "playing"]
     ELSE [keyed EXCEPT !.gameState.gameStatus = "playing"]

\* Variant: the round is reset only after deadUntil has passed.
evaluateGameStateStrictDeadline(room, t) ==
  LET world == room.worldRuntime
      players == room.gameState.players
      playerIds == PresentPlayers(room)
      atKey == \E i \in 1..Len(playerIds) :
                 /\ Alive(room, playerIds[i])
                 /\ intersects(players[playerIds[i]], key(world))
      keyed == IF ~room.gameState.keyCollected /\ atKey
               THEN [room EXCEPT !.gameState.keyCollected = TRUE]
               ELSE room
      touchedDanger ==
        \E i \in 1..Len(playerIds) :
          /\ Alive(room, playerIds[i])
          /\ \E b \in 1..Len(dangerButtons(world)) :
               intersects(players[playerIds[i]], dangerButtons(world)[b])
      inDoor(pid) == Alive(room, pid) /\ intersects(players[pid], door(world))
      atDoor == SelectSeq(playerIds, inDoor)
      doored == [keyed EXCEPT !.gameState.playersAtDoor =
                   [i \in 1..Len(atDoor) |-> players[atDoor[i]].id]]
  IN IF room.gameState.gameStatus = "dead"
     THEN IF room.deadUntil # 0 /\ t > room.deadUntil
          THEN resetRoundAfterDeath(room)
          ELSE room
     ELSE IF room.world = 2 /\ touchedDanger
     THEN [keyed EXCEPT !.gameState.gameStatus = "dead",
                        !.deadUntil = t + RESPAWN_DELAY_MS]
     ELSE IF keyed.gameState.keyCollected
     THEN IF Len(playerIds) > 0 /\ Len(atDoor) = Len(playerIds)
          THEN [doored EXCEPT !.gameState.gameStatus = "won"]
          ELSE [doored EXCEPT !.gameState.gameStatus = "playing"]
     ELSE [keyed EXCEPT !.gameState.gameStatus = "playing"]

\* Variant: a round that was won at the previous tick is playing again.
evaluateGameStateWonOnce(room, t) ==
  LET world == room.worldRuntime
      players == room.gameState.players
      playerIds == PresentPlayers(room)
      atKey == \E i \in 1..Len(playerIds) :
                 /\ Alive(room, playerIds[i])
                 /\ intersects(players[playerIds[i]], key(world))
      keyed == IF ~room.gameState.keyCollected /\ atKey
               THEN [room EXCEPT !.gameState.keyCollected = TRUE]
               ELSE room
      touchedDanger ==
        \E i \in 1..Len(playerIds) :
          /\ Alive(room, playerIds[i])
          /\ \E b \in 1..Len(dangerButtons(world)) :
               intersects(players[playerIds[i]], dangerButtons(world)[b])
      inDoor(pid) == Alive(room, pid) /\ intersects(players[pid], door(world))
      atDoor == SelectSeq(playerIds, inDoor)
      doored == [keyed EXCEPT !.gameState.playersAtDoor =
                   [i \in 1..Len(atDoor) |-> players[atDoor[i]].id]]
  IN IF room.gameState.gameStatus = "dead"
     THEN IF room.deadUntil # 0 /\ t >= room.deadUntil
          THEN resetRoundAfterDeath(room)
          ELSE room
     ELSE IF room.world = 2 /\ touchedDanger
     THEN [keyed EXCEPT !.gameState.gameStatus = "dead",
                        !.deadUntil = t + RESPAWN_DELAY_MS]
     ELSE IF keyed.gameState.keyCollected
     THEN IF Len(playerIds) > 0 /\ Len(atDoor) = Len(playerIds)
          THEN [doored EXCEPT !.gameState.gameStatus =
                  IF room.gameState.gameStatus = "won" THEN "playing" ELSE "won"]
          ELSE [doored EXCEPT !.gameState.gameStatus = "playing"]
     ELSE [keyed EXCEPT !.gameState.gameStatus = "playing"]

\* The room after evaluateGameState(room) run at time t.
evaluateGameState(room, t) ==
  LET world == room.worldRuntime
      players == room.gameState.players
      playerIds == PresentPlayers(room)
      atKey == \E i \in 1..Len(playerIds) :
                 /\ Alive(room, playerIds[i])
                 /\ intersects(players[playerIds[i]], key(world))
      keyed == IF ~room.gameState.keyCollected /\ atKey
               THEN [room EXCEPT !.gameState.keyCollected = TRUE]
               ELSE room
      touchedDanger ==
        \E i \in 1..Len(playerIds) :
          /\ Alive(room, playerIds[i])
          /\ \E b \in 1..Len(dangerButtons(world)) :
               intersects(players[playerIds[i]], dangerButtons(world)[b])
      inDoor(pid) == Alive(room, pid) /\ intersects(players[pid], door(world))
      atDoor == SelectSeq(playerIds, inDoor)
      doored == [keyed EXCEPT !.gameState.playersAtDoor =
                   [i \in 1..Len(atDoor) |-> players[atDoor[i]].id]]
  IN IF room.gameState.gameStatus = "dead"
     THEN IF room.deadUntil # 0 /\ t >= room.deadUntil
          THEN resetRoundAfterDeath(room)
          ELSE room
     ELSE IF room.world = 2 /\ touchedDanger
     THEN [keyed EXCEPT !.gameState.gameStatus = "dead",
                        !.deadUntil = t + RESPAWN_DELAY_MS]
     ELSE IF keyed.gameState.keyCollected
     THEN IF Len(playerIds) > 0 /\ Len(atDoor) = Len(playerIds)
          THEN [doored EXCEPT !.gameState.gameStatus = "won"]
          ELSE [doored EXCEPT !.gameState.gameStatus = "playing"]
     ELSE [keyed EXCEPT !.gameState.gameStatus = "playing"]

\* updateWorldRuntime moves the moving platforms and lets the falling ones
\* fall; both lists are empty in either world.
updateWorldRuntime(room, dt) == room

\* Variant: the players are stepped from the last of playerOrder to the
\* first.
RECURSIVE StepPlayersLastFirst(_, _, _, _)
StepPlayersLastFirst(room, pids, dt, t) ==
  LET n == Len(pids)
      Rest(r) == StepPlayersLastFirst(r, SubSeq(pids, 1, n - 1), dt, t)
  IN IF pids = <<>> THEN room
     ELSE IF HasKey(room.players, pids[n])
     THEN TheOne({Rest(v) : v \in {applyPlayerStep(room, pids[n], dt, t)}})
     ELSE Rest(room)

RECURSIVE StepPlayers(_, _, _, _)
StepPlayers(room, pids, dt, t) ==
  LET Rest(r) == StepPlayers(r, Tail(pids), dt, t)
  IN IF pids = <<>> THEN room
     ELSE IF HasKey(room.players, Head(pids))
     THEN TheOne({Rest(v) : v \in {applyPlayerStep(room, Head(pids), dt, t)}})
     ELSE Rest(room)

\* The room after the body of stepRoom ran at time t with the given dtScale.
SteppedRoomAt(room, dt, t) ==
  LET timed == [room EXCEPT !.lastStepAt = t]
      Evaluated(r) == evaluateGameState(r, t)
  IN TheOne({emitGameState(v) :
               v \in {Evaluated(w) :
                        w \in {StepPlayers(updateWorldRuntime(timed, dt),
                                            timed.playerOrder, dt, t)}}})

\* The room after stepRoom ran at time t.
SteppedRoom(room, t) ==
  LET elapsedMs == t - room.lastStepAt
      dt == IF room.lastStepAt # 0 THEN dtScale(elapsedMs) ELSE 100
  IN SteppedRoomAt(room, dt, t)

\* The room after stepRoom was called at time t: `if (!room.started) return;`.
TickedRoom(room, t) ==
  IF ~room.started THEN room ELSE SteppedRoom(room, t)

\* One firing of the interval that startRoomLoop created for the room,
\* elapsedMs after the previous reading of the clock.
stepRoom(roomCode, elapsedMs) ==
  /\ roomCode \in DOMAIN rooms
  /\ rooms[roomCode].loopHandle
  /\ now' = now + elapsedMs
  /\ rooms' = [rooms EXCEPT ![roomCode] = TickedRoom(rooms[roomCode], now')]
  /\ UNCHANGED <<playerToSocket, pendingDisconnects, timers, sockets>>

\* ---------------------------------------------------------- disconnect
disconnect(s) ==
  /\ IsOpen(s)
  /\ UNCHANGED now
  /\ sockets' = [sockets EXCEPT ![s] = Closed]
  /\ UNCHANGED rooms
  /\ LET roomCode == sockets[s].roomCode
         playerId == sockets[s].playerId
     IN IF roomCode = NoId \/ playerId = NoId \/ playerId \notin DOMAIN playerToSocket
        THEN UNCHANGED <<playerToSocket, pendingDisconnects, timers>>
        ELSE LET remaining == playerToSocket[playerId] \ {s}
                 st == clearPendingDisconnect(
                         [pending |-> pendingDisconnects, timers |-> timers], playerId)
                 timer == [id |-> FreshTimerId(st.timers), roomCode |-> roomCode,
                           playerId |-> playerId]
             IN IF remaining # {}
                THEN /\ playerToSocket' = [playerToSocket EXCEPT ![playerId] = remaining]
                     /\ UNCHANGED <<pendingDisconnects, timers>>
                ELSE /\ playerToSocket' = Remove(playerToSocket, playerId)
                     /\ timers' = st.timers \cup {timer}
                     /\ pendingDisconnects' = Put(st.pending, playerId, timer.id)

\* Variant: the host is not replaced when it is the player removed.
RoomWithoutPlayerKeepHost(room, playerId) ==
  LET left == [room EXCEPT !.players = DeleteKey(@, playerId),
                           !.inputs = Remove(@, playerId),
                           !.gameState.players = Remove(@, playerId),
                           !.playerOrder = SeqFilter(@, playerId)]
  IN IF Len(left.players) = 0 THEN left ELSE emitGameState(left)

\* Variant: the new host is the first of playerOrder, not the first key.
RoomWithoutPlayerFirstJoined(room, playerId) ==
  LET left == [room EXCEPT !.players = DeleteKey(@, playerId),
                           !.inputs = Remove(@, playerId),
                           !.gameState.players = Remove(@, playerId),
                           !.playerOrder = SeqFilter(@, playerId)]
  IN IF Len(left.players) = 0 THEN left
     ELSE emitGameState(
            IF left.hostId = playerId
            THEN [left EXCEPT !.hostId = left.playerOrder[1]]
            ELSE left)

\* The room after the grace timer's callback removed playerId from it; the
\* caller deletes the room when no player is left.
RoomWithoutPlayer(room, playerId) ==
  LET left == [room EXCEPT !.players = DeleteKey(@, playerId),
                           !.inputs = Remove(@, playerId),
                           !.gameState.players = Remove(@, playerId),
                           !.playerOrder = SeqFilter(@, playerId)]
  IN IF Len(left.players) = 0 THEN left
     ELSE emitGameState(
            IF left.hostId = playerId
            THEN [left EXCEPT !.hostId = ObjectKeys(left.players)[1]]
            ELSE left)

\* Variant: the callback leaves the room in the table when its last player
\* is gone.
graceExpiryKeepRoom(t) ==
  /\ t \in timers
  /\ UNCHANGED now
  /\ timers' = timers \ {t}
  /\ pendingDisconnects' = Remove(pendingDisconnects, t.playerId)
  /\ UNCHANGED <<playerToSocket, sockets>>
  /\ IF \/ t.roomCode \notin DOMAIN rooms
        \/ t.playerId \in DOMAIN playerToSocket
        \/ ~HasKey(rooms[t.roomCode].players, t.playerId)
     THEN UNCHANGED rooms
     ELSE LET left == RoomWithoutPlayer(rooms[t.roomCode], t.playerId)
          IN rooms' = [rooms EXCEPT ![t.roomCode] = left]

\* The callback of a grace timer, DISCONNECT_GRACE_MS after it was armed.
graceExpiry(t) ==
  /\ t \in timers
  /\ UNCHANGED now
  /\ timers' = timers \ {t}
  /\ pendingDisconnects' = Remove(pendingDisconnects, t.playerId)
  /\ UNCHANGED <<playerToSocket, sockets>>
  /\ IF \/ t.roomCode \notin DOMAIN rooms
        \/ t.playerId \in DOMAIN playerToSocket
        \/ ~HasKey(rooms[t.roomCode].players, t.playerId)
     THEN UNCHANGED rooms
     ELSE LET left == RoomWithoutPlayer(rooms[t.roomCode], t.playerId)
          IN IF Len(left.players) = 0
             THEN rooms' = Remove(rooms, t.roomCode)
             ELSE rooms' = [rooms EXCEPT ![t.roomCode] = left]

\* ---------------------------------------------------------------- Next
\* Membership and grace timers across two rooms, for two players.
TwoPlayers == {"ann", "7", NoId}

Next ==
  \/ connection
  \/ \E s \in SocketIds, rc \in RoomCodeInputs, m \in {1, 2}, h \in TwoPlayers :
        createRoom(s, rc, m, h, Map1, 50)
  \/ \E s \in SocketIds, rc \in RoomCodeInputs, p \in TwoPlayers :
        joinRoom(s, rc, p)
  \/ \E s \in SocketIds : disconnect(s)
  \/ \E t \in timers : graceExpiry(t)

Spec == Init /\ [][Next]_vars

\* Membership, grace timers and the world selection of one room, for three
\* players.
NextOrder ==
  \/ connection
  \/ \E s \in SocketIds, m \in {0, 3}, h \in PlayerIdInputs :
        createRoom(s, "R1", m, h, Map1, 50)
  \/ \E s \in SocketIds, rc \in RoomCodes, p \in PlayerIdInputs :
        joinRoom(s, rc, p)
  \/ \E s \in SocketIds, w \in WorldRequests : setWorld(s, w)
  \/ \E s \in SocketIds : disconnect(s)
  \/ \E t \in timers : graceExpiry(t)

SpecOrder == Init /\ [][NextOrder]_vars

\* The lobby of one room, for two players: heroes, ready flags, the start
\* of the game and the input frames of a started room.
NextLobby ==
  \/ connection
  \/ \E s \in SocketIds, rc \in {"R1", NoId}, m \in MaxPlayersInputs, h \in TwoPlayers :
        createRoom(s, rc, m, h, Map1, 50)
  \/ \E s \in SocketIds, rc \in RoomCodes, p \in TwoPlayers :
        joinRoom(s, rc, p)
  \/ \E s \in SocketIds, hero \in HeroInputs : selectHero(s, hero)
  \/ \E s \in SocketIds, ready \in BOOLEAN : setReady(s, ready)
  \/ \E s \in SocketIds : startGameNow(s)
  \/ \E s \in SocketIds, f \in InputFrames, ht \in HeightInputs :
        updateInput(s, f, ht)
  \/ \E s \in SocketIds : disconnect(s)
  \/ \E t \in timers : graceExpiry(t)

SpecLobby == Init /\ [][NextLobby]_vars

\* The lobby of one room with the world selection, before and after the
\* start of the game, for two players.
NextWorld ==
  \/ connection
  \/ \E s \in SocketIds, m \in {1, 2}, h \in {"ann", "7"},
          wh \in {<<Map1, 50>>, <<Map2, 700>>} :
        createRoom(s, "R1", m, h, wh[1], wh[2])
  \/ \E s \in SocketIds, p \in {"ann", "7"} : joinRoom(s, "R1", p)
  \/ \E s \in SocketIds, w \in WorldRequests : setWorld(s, w)
  \/ \E s \in SocketIds, hero \in Heroes : selectHero(s, hero)
  \/ \E s \in SocketIds, ready \in BOOLEAN : setReady(s, ready)
  \/ \E s \in SocketIds : startGameNow(s)
  \/ \E s \in SocketIds : disconnect(s)
  \/ \E t \in timers : graceExpiry(t)

SpecWorld == Init /\ [][NextWorld]_vars

\* The simulation of one started room. The key, the door, the danger
\* buttons and the end of the last platform are hundreds of ticks away from
\* the spawn points, so the behaviours start from rooms in the middle of a
\* round: "ann" (host, slot 1) and possibly "7" (slot 2) have picked their
\* heroes, are ready, the game was started and ticks have moved the
\* players to the places of GameScenes.
Right == [left |-> FALSE, right |-> TRUE, jump |-> FALSE]
RightJump == [left |-> FALSE, right |-> TRUE, jump |-> TRUE]
Left == [left |-> TRUE, right |-> FALSE, jump |-> FALSE]
GameFrames == {Right, RightJump, Left}

\* Milliseconds between two firings of the interval: a slow server (both
\* values give dtScale 2.5), the second one as long as the respawn delay.
ElapsedMs == {900, RESPAWN_DELAY_MS}

\* No tick is taken after MaxNow, except to end a respawn delay.
MaxNow == 5500

\* world, x of each player (pixels), held frames, keyCollected, and the
\* number of ticks slot 1 has been falling since it left the last platform.
Scene(world, xs, frames, collected, fallTicks) ==
  [world |-> world, xs |-> xs, frames |-> frames, keyCollected |-> collected,
   fallTicks |-> fallTicks]

GameScenes ==
  { \* both players at their spawn points
    Scene(Map1, <<100, 180>>, <<NoInput, NoInput>>, FALSE, 0),
    \* walking towards the key of world 1
    Scene(Map1, <<1900>>, <<Right>>, FALSE, 0),
    \* past the end of the last platform of world 1, falling
    Scene(Map1, <<5950>>, <<Right>>, TRUE, 11),
    \* in front of the first danger button of world 2
    Scene(Map2, <<250>>, <<NoInput>>, FALSE, 0),
    \* world 2, key collected: "7" in the door, "ann" walking up to it
    Scene(Map2, <<4350, 4410>>, <<Right, NoInput>>, TRUE, 0) }

GamePlayers == <<"ann", "7">>

\* y and vy after n ticks of free fall at dtScale 2.5 from the height y0.
RECURSIVE FallY(_, _)
FallY(y0, n) ==
  IF n = 0 THEN y0
  ELSE FallY(y0, n - 1) + Scaled(Min(n * Scaled(gravity, 250), maxFallSpeed), 250)

\* The room of a scene: created, joined, heroes picked, everybody ready,
\* started, and then played up to the scene; its last tick ran at `now`.
SceneRoom(scene) ==
  LET n == Len(scene.xs)
      created == NewRoom("R1", n, GamePlayers[1], scene.world, 50)
      lobby == [created EXCEPT
                  !.playerOrder = SubSeq(GamePlayers, 1, n),
                  !.players = [i \in 1..n |->
                                 [id |-> GamePlayers[i],
                                  hero |-> IF i = 1 THEN "knight" ELSE "mage",
                                  ready |-> TRUE,
                                  name |-> PlayerLabel(i)]]]
      started == startRoomLoop(emitGameState(StartedRoom(lobby)))
      placed(i) ==
        LET p == started.gameState.players[GamePlayers[i]]
            f == IF i = 1 THEN scene.fallTicks ELSE 0
        IN [p EXCEPT !.x = Sub(scene.xs[i]),
                     !.vx = IF scene.frames[i].right THEN moveSpeed ELSE 0,
                     !.y = FallY(p.y, f),
                     !.vy = Min(f * Scaled(gravity, 250), maxFallSpeed),
                     !.onGround = (f = 0),
                     !.prevY = <<IF f = 0 THEN p.y ELSE FallY(p.y, f - 1)>>]
      played ==
        [started EXCEPT
           !.gameState.players = [pid \in DOMAIN started.gameState.players |->
                                    placed(playerIndexOf(started, pid))],
           !.gameState.keyCollected = scene.keyCollected,
           !.inputs = [pid \in {GamePlayers[i] : i \in
                                  {j \in 1..n : scene.frames[j] # NoInput}} |->
                         scene.frames[playerIndexOf(started, pid)]]]
      inDoor(pid) == intersects(played.gameState.players[pid],
                                door(played.worldRuntime))
      atDoor == SelectSeq(played.playerOrder, inDoor)
  IN [played EXCEPT !.gameState.playersAtDoor =
        IF scene.keyCollected
        THEN [i \in 1..Len(atDoor) |-> played.gameState.players[atDoor[i]].id]
        ELSE <<>>]

InitGame ==
  /\ now = 1000
  /\ \E scene \in GameScenes :
       /\ rooms = [rc \in {"R1"} |-> SceneRoom(scene)]
       /\ sockets = [i \in 1..Len(scene.xs) |->
                       [open |-> TRUE, roomCode |-> "R1", playerId |-> GamePlayers[i]]]
       /\ playerToSocket = [pid \in {GamePlayers[i] : i \in 1..Len(scene.xs)} |->
                              {playerIndexOf(rooms["R1"], pid)}]
  /\ pendingDisconnects = EmptyMap
  /\ timers = {}

\* A tick is due: the clock has not passed MaxNow, or a round is waiting
\* for the end of its respawn delay.
TickDue(roomCode) ==
  \/ now < MaxNow
  \/ /\ roomCode \in DOMAIN rooms
     /\ rooms[roomCode].gameState.gameStatus = "dead"

NextGame ==
  \/ \E e \in ElapsedMs : TickDue("R1") /\ stepRoom("R1", e)
  \/ \E f \in GameFrames, ht \in HeightInputs : updateInput(1, f, ht)
  \/ \E w \in {Map1, Map2} : setWorld(1, w)
  \/ startGameNow(1)
  \/ \E s \in SocketIds : disconnect(s)
  \/ \E t \in timers : graceExpiry(t)

SpecGame == InitGame /\ [][NextGame]_vars

\* The round of one started room under every kind of event: the scenes in
\* which the key is collected or about to be, with the lobby commands and a
\* newcomer's join next to the ticks.
RoundScenes ==
  {scene \in GameScenes : scene.keyCollected \/ scene.xs = <<1900>>}

InitRound ==
  /\ now = 1000
  /\ \E scene \in RoundScenes :
       /\ rooms = [rc \in {"R1"} |-> SceneRoom(scene)]
       /\ sockets = [i \in 1..Len(scene.xs) |->
                       [open |-> TRUE, roomCode |-> "R1", playerId |-> GamePlayers[i]]]
       /\ playerToSocket = [pid \in {GamePlayers[i] : i \in 1..Len(scene.xs)} |->
                              {playerIndexOf(rooms["R1"], pid)}]
  /\ pendingDisconnects = EmptyMap
  /\ timers = {}

NextRound ==
  \/ \E e \in ElapsedMs : TickDue("R1") /\ stepRoom("R1", e)
  \/ updateInput(1, RightJump, 50)
  \/ setWorld(1, Map2)
  \/ \E s \in SocketIds : startGameNow(s)
  \/ \E s \in SocketIds : selectHero(s, "mage")
  \/ \E s \in SocketIds, ready \in BOOLEAN : setReady(s, ready)
  \/ \E s \in SocketIds, p \in {"ann", "3"} : joinRoom(s, "R1", p)
  \/ \E s \in SocketIds : disconnect(s)
  \/ \E t \in timers : graceExpiry(t)

SpecRound == InitRound /\ [][NextRound]_vars

\* Deaths and respawns: the scenes of world 2 and the scene of the fall,
\* with ticks, inputs and departures only, so that a player is back at its
\* spawn point only by a round reset. The interval of a room keeps firing
\* as long as the room is in the table, hence the weak fairness of Tick.
RespawnScenes ==
  {scene \in GameScenes : scene.world = Map2 \/ scene.fallTicks > 0}

InitRespawn ==
  /\ now = 1000
  /\ \E scene \in RespawnScenes :
       /\ rooms = [rc \in {"R1"} |-> SceneRoom(scene)]
       /\ sockets = [i \in 1..Len(scene.xs) |->
                       [open |-> TRUE, roomCode |-> "R1", playerId |-> GamePlayers[i]]]
       /\ playerToSocket = [pid \in {GamePlayers[i] : i \in 1..Len(scene.xs)} |->
                              {playerIndexOf(rooms["R1"], pid)}]
  /\ pendingDisconnects = EmptyMap
  /\ timers = {}

\* The frames sent while a round is dead or about to be.
RespawnFrames == {Right, Left}

Tick == \E e \in ElapsedMs : TickDue("R1") /\ stepRoom("R1", e)

NextRespawn ==
  \/ Tick
  \/ \E f \in RespawnFrames : updateInput(1, f, 50)
  \/ \E s \in SocketIds : disconnect(s)
  \/ \E t \in timers : graceExpiry(t)

SpecRespawn == InitRespawn /\ [][NextRespawn]_vars /\ WF_vars(Tick)

\* Room creation alone: every roomCode, maxPlayers and hostId a client can
\* send, with connections coming and going.
NextCreate ==
  \/ connection
  \/ \E s \in SocketIds, rc \in RoomCodeInputs, m \in MaxPlayersInputs,
          h \in TwoPlayers :
        createRoom(s, rc, m, h, Map1, 50)
  \/ \E s \in SocketIds : disconnect(s)
  \/ \E t \in timers : graceExpiry(t)

SpecCreate == Init /\ [][NextCreate]_vars

\* The jump of scenario S4: world 1, "ann" alone at the spawn point of slot 1
\* with a jump frame stored, and ticks that come exactly one frame apart
\* (dtScale 1; the millisecond clock shows 17). After the first tick the
\* client may release or press jump between ticks.
JumpOnly == [left |-> FALSE, right |-> FALSE, jump |-> TRUE]

FrameMs == 17

\* The number of ticks of a behaviour of the scenario.
JumpTicks == 60

Ticks == (now - 1000) \div FrameMs

InitJump ==
  /\ now = 1000
  /\ rooms = [rc \in {"R1"} |->
                SceneRoom(Scene(Map1, <<100>>, <<JumpOnly>>, FALSE, 0))]
  /\ sockets = [i \in {1} |-> [open |-> TRUE, roomCode |-> "R1", playerId |-> "ann"]]
  /\ playerToSocket = [pid \in {"ann"} |-> {1}]
  /\ pendingDisconnects = EmptyMap
  /\ timers = {}

FrameTick(roomCode) ==
  /\ roomCode \in DOMAIN rooms
  /\ rooms[roomCode].loopHandle
  /\ rooms[roomCode].started
  /\ Ticks < JumpTicks
  /\ now' = now + FrameMs
  /\ rooms' = [rooms EXCEPT ![roomCode] = SteppedRoomAt(rooms[roomCode], 100, now')]
  /\ UNCHANGED <<playerToSocket, pendingDisconnects, timers, sockets>>

NextJump ==
  \/ FrameTick("R1")
  \/ Ticks >= 1 /\ \E f \in {JumpOnly, NoInput} : updateInput(1, f, 50)

SpecJump == InitJump /\ [][NextJump]_vars

\* Names: one room whose players rename themselves. The names sent are
\* made of an edge of spaces, a run of "a" around the limit of 20
\* characters, spaces inside, a "b" and a trailing space; a client may also
\* send back the name the server stored for it.
RECURSIVE Run(_, _)
Run(c, n) == IF n = 0 THEN <<>> ELSE <<c>> \o Run(c, n - 1)

NameInputs ==
  {Run(" ", lead) \o Run("a", as) \o Run(" ", gap) \o Run("b", bs) \o Run(" ", trail) :
     lead \in {0, 1}, as \in {0, 1, 19, 20, 21}, gap \in {0, 1, 2},
     bs \in {0, 1}, trail \in {0, 1}}

NextName ==
  \/ connection
  \/ \E s \in SocketIds, m \in {1, 2} : createRoom(s, "R1", m, "ann", Map1, 50)
  \/ \E s \in SocketIds, name \in NameInputs : setPlayerName(s, name)
  \/ \E s \in SocketIds :
        /\ IsOpen(s)
        /\ BoundMember(s)
        /\ setPlayerName(s, NameOf(rooms[sockets[s].roomCode], sockets[s].playerId))
  \/ \E s \in SocketIds : disconnect(s)
  \/ \E t \in timers : graceExpiry(t)

SpecName == Init /\ [][NextName]_vars

\* The player-vs-player resolution on its own: "ann" and "7" overlap in a
\* started room of world 1, as they may after the vertical step of one of
\* them, and resolvePlayerCollisions runs for either. Offsets in pixels,
\* speeds in hundredths of a pixel per tick.
CollideXs == {0, 300}
CollideOffsets == {0 - 40, 0 - 20, 0, 20, 40}
CollideRises == {0 - 50, 0 - 30, 0, 30, 50}
CollideSpeeds == {jumpForce, 0, 600}

CollideRoom(ax, dx, dy, avy, vy) ==
  LET base == SceneRoom(Scene(Map1, <<ax, ax>>, <<NoInput, NoInput>>, FALSE, 0))
      a == base.gameState.players["ann"]
      y7 == a.y + Sub(dy)
  IN [base EXCEPT
        !.gameState.players["ann"] =
          [a EXCEPT !.vy = avy, !.onGround = (avy = 0), !.prevY = <<a.y - avy>>],
        !.gameState.players["7"] =
          [@ EXCEPT !.x = a.x + Sub(dx), !.y = y7, !.vy = vy,
                    !.onGround = FALSE, !.prevY = <<y7 - vy>>]]

InitCollide ==
  /\ now = 1000
  /\ \E ax \in CollideXs, dx \in CollideOffsets, dy \in CollideRises,
        avy \in {0, jumpForce}, vy \in CollideSpeeds :
       /\ ax + dx >= 0
       /\ rooms = [rc \in {"R1"} |-> CollideRoom(ax, dx, dy, avy, vy)]
  /\ sockets = [i \in 1..2 |->
                  [open |-> TRUE, roomCode |-> "R1", playerId |-> GamePlayers[i]]]
  /\ playerToSocket = [pid \in {"ann", "7"} |-> {playerIndexOf(rooms["R1"], pid)}]
  /\ pendingDisconnects = EmptyMap
  /\ timers = {}

Resolve(roomCode, selfId) ==
  /\ roomCode \in DOMAIN rooms
  /\ rooms' = [rooms EXCEPT ![roomCode] = resolvePlayerCollisions(@, selfId)]
  /\ UNCHANGED <<playerToSocket, pendingDisconnects, timers, sockets, now>>

NextCollide == \E selfId \in {"ann", "7"} : Resolve("R1", selfId)

SpecCollide == InitCollide /\ [][NextCollide]_vars

\* The reported canvas height of a started room: one or two players at
\* rest or jumping in place, in either world, with reports below the
\* accepted minimum, clamped at either end, and one and two pixels apart.
HeightReports == {50, 400, 700, 701, 702, 2000}

HeightScenes ==
  { Scene(Map2, <<250>>, <<NoInput>>, FALSE, 0),
    Scene(Map1, <<100, 180>>, <<NoInput, NoInput>>, FALSE, 0) }

InitHeight ==
  /\ now = 1000
  /\ \E scene \in HeightScenes :
       /\ rooms = [rc \in {"R1"} |-> SceneRoom(scene)]
       /\ sockets = [i \in 1..Len(scene.xs) |->
                       [open |-> TRUE, roomCode |-> "R1", playerId |-> GamePlayers[i]]]
       /\ playerToSocket = [pid \in {GamePlayers[i] : i \in 1..Len(scene.xs)} |->
                              {playerIndexOf(rooms["R1"], pid)}]
  /\ pendingDisconnects = EmptyMap
  /\ timers = {}

NextHeight ==
  \/ TickDue("R1") /\ stepRoom("R1", 900)
  \/ \E f \in {NoInput, JumpOnly}, ht \in HeightReports : updateInput(1, f, ht)
  \/ \E w \in {Map1, Map2} : setWorld(1, w)

SpecHeight == InitHeight /\ [][NextHeight]_vars

\* The interval of one room from the lobby on: "ann" (host) and "7" have
\* picked their heroes and are ready; the host starts (and restarts) the
\* game, either player withdraws or sets the ready flag, both send frames
\* that walk them into each other, and the interval fires.
TickLobby ==
  LET created == NewRoom("R1", 2, "ann", Map1, 50)
  IN emitGameState(
       [created EXCEPT
          !.playerOrder = GamePlayers,
          !.players = [i \in 1..2 |->
                         [id |-> GamePlayers[i],
                          hero |-> IF i = 1 THEN "knight" ELSE "mage",
                          ready |-> TRUE,
                          name |-> PlayerLabel(i)]]])

InitTick ==
  /\ now = 1000
  /\ rooms = [rc \in {"R1"} |-> TickLobby]
  /\ sockets = [i \in 1..2 |->
                  [open |-> TRUE, roomCode |-> "R1", playerId |-> GamePlayers[i]]]
  /\ playerToSocket = [pid \in {"ann", "7"} |-> {playerIndexOf(TickLobby, pid)}]
  /\ pendingDisconnects = EmptyMap
  /\ timers = {}

NextTick ==
  \/ startGameNow(1)
  \/ \E s \in {1, 2}, ready \in BOOLEAN : setReady(s, ready)
  \/ \E s \in {1, 2}, f \in {Left, Right} : updateInput(s, f, 50)
  \/ TickDue("R1") /\ stepRoom("R1", 900)

SpecTick == InitTick /\ [][NextTick]_vars

\* The world selection from either player of a room, in the lobby and in
\* the scenes of a started room, with values in upper case or padded with
\* blanks next to the plain ones.
WorldValueInputs ==
  { Map1, Map2, World2, Junk, <<"1">>, <<"2">>, <<"2", "2">>,
    <<"M", "A", "P", "2">>, <<"W", "o", "r", "l", "d", "2">>,
    <<" ", "2", " ">>, <<"m", "a", "p", " ", "2">> }

InitSelect ==
  /\ now = 1000
  /\ \E room \in {SceneRoom(scene) : scene \in GameScenes} \cup {TickLobby} :
       /\ rooms = [rc \in {"R1"} |-> room]
       /\ sockets = [i \in 1..Len(room.playerOrder) |->
                       [open |-> TRUE, roomCode |-> "R1",
                        playerId |-> room.playerOrder[i]]]
       /\ playerToSocket = [pid \in {room.playerOrder[i] :
                                       i \in 1..Len(room.playerOrder)} |->
                              {playerIndexOf(room, pid)}]
  /\ pendingDisconnects = EmptyMap
  /\ timers = {}

NextSelect ==
  \/ \E s \in SocketIds, w \in WorldValueInputs : setWorld(s, w)
  \/ \E s \in SocketIds : updateInput(s, Right, 50)
  \/ startGameNow(1)
  \/ TickDue("R1") /\ stepRoom("R1", 900)

SpecSelect == InitSelect /\ [][NextSelect]_vars

\* Round starts without any input: a lobby of one to three players who
\* have picked their heroes and are ready, created in either world with a
\* reported height that is rejected, clamped from below, taken as it is or
\* clamped from above; the host starts the game and selects worlds, and the
\* interval fires.
SpawnPlayers == <<"ann", "7", "3">>
SpawnHeroes == <<"knight", "mage", "archer">>
SpawnHeights == {50, 580, 900, 1480}

SpawnLobby(n, world, height) ==
  LET created == NewRoom("R1", 4, "ann", world, height)
  IN emitGameState(
       [created EXCEPT
          !.playerOrder = SubSeq(SpawnPlayers, 1, n),
          !.players = [i \in 1..n |->
                         [id |-> SpawnPlayers[i],
                          hero |-> SpawnHeroes[i],
                          ready |-> TRUE,
                          name |-> PlayerLabel(i)]]])

InitSpawn ==
  /\ now = 1000
  /\ \E n \in 1..3, world \in {Map1, Map2}, height \in SpawnHeights :
       /\ rooms = [rc \in {"R1"} |-> SpawnLobby(n, world, height)]
       /\ sockets = [i \in 1..n |->
                       [open |-> TRUE, roomCode |-> "R1",
                        playerId |-> SpawnPlayers[i]]]
       /\ playerToSocket = [pid \in {SpawnPlayers[i] : i \in 1..n} |->
                              {playerIndexOf(rooms["R1"], pid)}]
  /\ pendingDisconnects = EmptyMap
  /\ timers = {}

NextSpawn ==
  \/ startGameNow(1)
  \/ \E w \in {Map1, Map2} : setWorld(1, w)
  \/ TickDue("R1") /\ stepRoom("R1", 900)

SpecSpawn == InitSpawn /\ [][NextSpawn]_vars

\* Membership and grace timers as in Spec, with the timers' callbacks run
\* by the event loop: an armed timer that is not cleared does fire.
SpecDrain ==
  Init /\ [][Next]_vars /\ WF_vars(\E t \in timers : graceExpiry(t))

\* Two players past the end of the last platform of world 1, "ann" after
\* 11 ticks of free fall at x 5950 and "7" one to three ticks behind at
\* x 5900, with ticks 900 ms apart (the respawn delay is two ticks), input
\* frames and ready flags.
FallLags == {1, 2, 3}

FallRoom(lag) ==
  LET base == SceneRoom(Scene(Map1, <<5950, 5900>>, <<NoInput, NoInput>>, FALSE, 11))
      y0 == Sub(base.worldRuntime.firstPlatformY - PLAYER_HEIGHT)
      f == 11 - lag
  IN [base EXCEPT
        !.gameState.players["7"] =
          [@ EXCEPT !.y = FallY(y0, f),
                    !.vy = Min(f * Scaled(gravity, 250), maxFallSpeed),
                    !.onGround = FALSE,
                    !.prevY = <<FallY(y0, f - 1)>>]]

InitFall ==
  /\ now = 1000
  /\ \E lag \in FallLags : rooms = [rc \in {"R1"} |-> FallRoom(lag)]
  /\ sockets = [i \in 1..2 |->
                  [open |-> TRUE, roomCode |-> "R1", playerId |-> GamePlayers[i]]]
  /\ playerToSocket = [pid \in {"ann", "7"} |-> {playerIndexOf(rooms["R1"], pid)}]
  /\ pendingDisconnects = EmptyMap
  /\ timers = {}

NextFall ==
  \/ TickDue("R1") /\ stepRoom("R1", 900)
  \/ \E s \in {1, 2}, f \in {NoInput, Left}, ht \in HeightInputs : updateInput(s, f, ht)
  \/ \E s \in {1, 2}, ready \in BOOLEAN : setReady(s, ready)

SpecFall == InitFall /\ [][NextFall]_vars

\* The lobby of a room of two, both with a hero and ready, whose players
\* pick, change and clear heroes and set and unset ready, before the start
\* and during the game.
NextHero ==
  \/ \E s \in {1, 2}, hero \in HeroInputs : selectHero(s, hero)
  \/ \E s \in {1, 2}, ready \in BOOLEAN : setReady(s, ready)
  \/ startGameNow(1)
  \/ TickDue("R1") /\ stepRoom("R1", RESPAWN_DELAY_MS)

SpecHero == InitTick /\ [][NextHero]_vars

\* ================================================================ claims
Members(room) == KeySet(room.players)

OrderSet(room) == {room.playerOrder[i] : i \in 1..Len(room.playerOrder)}

\* Some open socket is bound to this player in this room.
Connected(socks, roomCode, playerId) ==
  \E s \in DOMAIN socks :
    /\ socks[s].open
    /\ socks[s].roomCode = roomCode
    /\ socks[s].playerId = playerId

\* C1: in every room of the table playerOrder has no duplicates, its
\* elements are exactly the keys of players (so both have the same size),
\* and there are at most maxPlayers players.
C1_MembershipInvariant ==
  \A rc \in DOMAIN rooms :
    LET room == rooms[rc]
    IN /\ \A i, j \in 1..Len(room.playerOrder) :
            room.playerOrder[i] = room.playerOrder[j] => i = j
       /\ \A i, j \in 1..Len(room.players) :
            room.players[i].id = room.players[j].id => i = j
       /\ OrderSet(room) = Members(room)
       /\ Len(room.players) = Len(room.playerOrder)
       /\ Len(room.players) <= room.maxPlayers

\* A full room of two players, one of them gone and waiting for its grace
\* timer, while the other room of the table lost a player to a grace expiry
\* (its remaining player still carries the spawn of slot 2).
C1_Witness ==
  \E rc \in DOMAIN rooms :
    /\ Len(rooms[rc].playerOrder) = 2
    /\ rooms[rc].maxPlayers = 2
    /\ \E t \in timers : t.roomCode = rc /\ t.playerId \in Members(rooms[rc])
    /\ \E other \in DOMAIN rooms \ {rc} :
         /\ Len(rooms[other].playerOrder) = 1
         /\ \E p \in DOMAIN rooms[other].gameState.players :
              rooms[other].gameState.players[p].x = Sub(180)

\* C2: the host of every room of the table is one of its players.
C2_HostIsMember ==
  \A rc \in DOMAIN rooms : rooms[rc].hostId \in Members(rooms[rc])

\* The host of a room is a player who joined second: the creator was
\* removed by its grace timer and the host was elected.
C2_Witness ==
  \E rc \in DOMAIN rooms :
    LET room == rooms[rc]
    IN /\ room.hostId \in DOMAIN room.gameState.players
       /\ room.gameState.players[room.hostId].x = Sub(180)
       /\ room.gameState.players[room.hostId].id = 1

\* C5: while a player stays a member of a room, its slot (playerIndexOf)
\* does not change, also when another player is removed.
C5_SlotStable ==
  [][\A rc \in DOMAIN rooms, p \in PlayerIds :
       (/\ rc \in DOMAIN rooms'
        /\ p \in Members(rooms[rc])
        /\ p \in Members(rooms'[rc]))
       => IndexOf(rooms'[rc].playerOrder, p) = IndexOf(rooms[rc].playerOrder, p)]_vars

\* C7: a member without a connection keeps its armed grace timer until the
\* timer fires or the player is connected again; so the timer, once armed,
\* does remove the player.
C7_GraceTimerStaysArmed ==
  [][\A t \in timers :
       (/\ t.roomCode \in DOMAIN rooms
        /\ t.roomCode \in DOMAIN rooms'
        /\ t.playerId \in Members(rooms[t.roomCode])
        /\ t.playerId \in Members(rooms'[t.roomCode])
        /\ t.playerId \notin DOMAIN playerToSocket'
        /\ ~Connected(sockets', t.roomCode, t.playerId))
       => t \in timers']_vars

\* C8: at most one grace timer is armed per player, it is the timer stored
\* in pendingDisconnects (so it can be cancelled), and no timer is armed for
\* a player that has a registered connection: a timer armed before a
\* reconnect never fires after it.
C8_TimerIdempotentCancellable ==
  /\ \A t, u \in timers : t.playerId = u.playerId => t = u
  /\ \A t \in timers :
       /\ t.playerId \in DOMAIN pendingDisconnects
       /\ pendingDisconnects[t.playerId] = t.id
  /\ \A p \in DOMAIN pendingDisconnects :
       \E t \in timers : t.playerId = p /\ t.id = pendingDisconnects[p]
  /\ \A t \in timers : t.playerId \notin DOMAIN playerToSocket

\* Two connections have closed and the only player of a room waits for its
\* grace timer, armed when its second connection closed.
C8_Witness ==
  /\ Len(sockets) >= 2
  /\ ~sockets[1].open
  /\ ~sockets[2].open
  /\ \E t \in timers :
       /\ timers = {t}
       /\ DOMAIN rooms = {t.roomCode}
       /\ Members(rooms[t.roomCode]) = {t.playerId}

\* C3: two distinct players of a room never hold the same hero, and a
\* selectHero for a hero another player holds is answered heroDenied and
\* changes nothing.
HeroesDistinct ==
  \A rc \in DOMAIN rooms :
    \A i, j \in 1..Len(rooms[rc].players) :
      (/\ i # j
       /\ rooms[rc].players[i].hero # NoHero)
      => rooms[rc].players[i].hero # rooms[rc].players[j].hero

HeldByAnother(s, hero) ==
  /\ BoundMember(s)
  /\ \E i \in 1..Len(rooms[sockets[s].roomCode].players) :
       /\ rooms[sockets[s].roomCode].players[i].id # sockets[s].playerId
       /\ rooms[sockets[s].roomCode].players[i].hero = hero

C3_HeroExclusive ==
  /\ []HeroesDistinct
  /\ [][\A s \in SocketIds, hero \in Heroes :
          (IsOpen(s) /\ HeldByAnother(s, hero) /\ selectHero(s, hero))
          => (selectHeroReply(s, hero) = "heroDenied" /\ UNCHANGED vars)]_vars

\* A started room whose two players hold the two heroes, one of them on a
\* connection opened after another one closed.
C3_Witness ==
  \E rc \in DOMAIN rooms :
    /\ rooms[rc].started
    /\ Len(rooms[rc].players) = 2
    /\ {rooms[rc].players[i].hero : i \in 1..2} = Heroes
    /\ \E s \in DOMAIN sockets : ~sockets[s].open

\* C4: started turns true only in a startGameNow of a connection bound to
\* the host while every player has a hero and is ready; any other
\* startGameNow is answered startDenied (or ignored when the connection has
\* no room) and leaves every room as it was.
MayStart(s) ==
  /\ BoundRoom(s)
  /\ rooms[sockets[s].roomCode].hostId = sockets[s].playerId
  /\ \A i \in 1..Len(rooms[sockets[s].roomCode].players) :
       /\ rooms[sockets[s].roomCode].players[i].hero # NoHero
       /\ rooms[sockets[s].roomCode].players[i].ready

C4_StartGating ==
  [][/\ \A rc \in DOMAIN rooms :
          (/\ rc \in DOMAIN rooms'
           /\ ~rooms[rc].started
           /\ rooms'[rc].started)
          => \E s \in SocketIds :
               /\ startGameNow(s)
               /\ sockets[s].roomCode = rc
               /\ MayStart(s)
     /\ \A s \in SocketIds :
          (IsOpen(s) /\ ~MayStart(s) /\ startGameNow(s))
          => /\ rooms' = rooms
             /\ startGameNowReply(s) = IF BoundRoom(s) THEN "startDenied" ELSE "none"]_vars

\* A started room with two players and its tick loop running.
C4_Witness ==
  \E rc \in DOMAIN rooms :
    /\ rooms[rc].started
    /\ rooms[rc].loopHandle
    /\ rooms[rc].gameState.gameStatus = "playing"
    /\ Len(rooms[rc].players) = 2

C9_HostElection ==
  [][\A t \in timers :
       (/\ t.roomCode \in DOMAIN rooms
        /\ t.roomCode \in DOMAIN rooms'
        /\ t.playerId \in Members(rooms[t.roomCode])
        /\ t.playerId \notin Members(rooms'[t.roomCode])
        /\ graceExpiry(t))
       => rooms'[t.roomCode].hostId =
            IF rooms[t.roomCode].hostId = t.playerId
            THEN ObjectKeys(rooms'[t.roomCode].players)[1]
            ELSE rooms[t.roomCode].hostId]_vars

\* The creator of a room of three was removed and the host that was
\* elected is not the player that joined first.
C9_Witness ==
  \E rc \in DOMAIN rooms :
    /\ Len(rooms[rc].playerOrder) = 2
    /\ rooms[rc].hostId = rooms[rc].playerOrder[2]
    /\ rooms[rc].hostId = ObjectKeys(rooms[rc].players)[1]

\* C10: a command answered with createDenied, joinDenied, heroDenied,
\* readyDenied or startDenied leaves every room as it was: no step that
\* changes a room is the step of a denied command.
C10_DeniedChangesNoRoom ==
  [][\/ rooms' = rooms
     \/ /\ \A s \in SocketIds, rc \in RoomCodeInputs, m \in MaxPlayersInputs,
              h \in PlayerIdInputs :
             createRoomReply(rc, m, h) = "createDenied"
             => ~createRoom(s, rc, m, h, Map1, 50)
        /\ \A s \in SocketIds, rc \in RoomCodeInputs, p \in PlayerIdInputs :
             joinRoomReply(rc, p) = "joinDenied" => ~joinRoom(s, rc, p)
        /\ \A s \in SocketIds, hero \in HeroInputs :
             (IsOpen(s) /\ selectHeroReply(s, hero) = "heroDenied")
             => ~selectHero(s, hero)
        /\ \A s \in SocketIds, ready \in BOOLEAN :
             (IsOpen(s) /\ setReadyReply(s) = "readyDenied")
             => ~setReady(s, ready)
        /\ \A s \in SocketIds :
             (IsOpen(s) /\ startGameNowReply(s) = "startDenied")
             => ~startGameNow(s)]_vars

\* A started room with a stored input frame and one player, while a
\* connection bound to no room is open: create, join, hero, ready and start
\* requests can all be denied here.
C10_Witness ==
  \E rc \in DOMAIN rooms :
    /\ rooms[rc].started
    /\ rooms[rc].inputs # EmptyMap
    /\ Len(rooms[rc].players) = 1
    /\ \E s \in DOMAIN sockets : sockets[s] = Unbound

\* C11: a joinRoom for a started room by a playerId that is not a member is
\* denied, and so is a joinRoom by a new playerId for a room that already
\* has maxPlayers players: the step changes no room and binds no socket,
\* and no step adds a member to a started room.
C11_StartedOrFullDeniesNewcomer ==
  [][/\ \A rc \in DOMAIN rooms :
          (rooms[rc].started /\ rc \in DOMAIN rooms')
          => Members(rooms'[rc]) \subseteq Members(rooms[rc])
     /\ \A s \in SocketIds, rc \in RoomCodes, p \in PlayerIds :
          (/\ IsOpen(s)
           /\ rc \in DOMAIN rooms
           /\ ~HasKey(rooms[rc].players, p)
           /\ \/ rooms[rc].started
              \/ Len(rooms[rc].players) >= rooms[rc].maxPlayers
           /\ joinRoom(s, rc, p))
          => /\ joinRoomReply(rc, p) = "joinDenied"
             /\ UNCHANGED <<rooms, sockets, playerToSocket>>]_vars

\* A started room with a free place, next to an open connection that is
\* bound to no room: the connection of a newcomer whose join was denied.
C11_Witness ==
  \E rc \in DOMAIN rooms :
    /\ rooms[rc].started
    /\ Len(rooms[rc].players) < rooms[rc].maxPlayers
    /\ \E s \in DOMAIN sockets : sockets[s] = Unbound

C13_WorldAgrees ==
  \A rc \in DOMAIN rooms :
    /\ rooms[rc].world \in {1, 2}
    /\ rooms[rc].gameState.world = rooms[rc].world
    /\ rooms[rc].worldRuntime.id = rooms[rc].world
    /\ gameStateSnapshot(rooms[rc]).world = rooms[rc].gameState.world

\* Rooms whose world was changed by setWorld: a room created in world 1
\* (world2BaseY left at WORLD2_BASE_Y) that is now in world 2 with its
\* snapshot rebuilt, before the start or after it.
C13_Witness ==
  \E rc \in DOMAIN rooms :
    /\ rooms[rc].world = 2
    /\ rooms[rc].world2BaseY = WORLD2_BASE_Y
    /\ rooms[rc].started
    /\ gameStateSnapshot(rooms[rc]).world = 2
    /\ rooms[rc].gameState.players # EmptyMap

\* C14: a room that is not started has gameStatus "waiting", and so does
\* the snapshot emitGameState broadcasts for it, whatever createRoom,
\* joinRoom, setWorld, selectHero, setReady, startGameNow (denied) and
\* disconnect events came before.
C14_WaitingUntilStarted ==
  \A rc \in DOMAIN rooms :
    ~rooms[rc].started
    => /\ rooms[rc].gameState.gameStatus = "waiting"
       /\ gameStateSnapshot(rooms[rc]).gameStatus = "waiting"

\* A room not started yet whose world was changed by setWorld after a
\* second player joined, with a hero picked and a player ready.
C14_Witness ==
  \E rc \in DOMAIN rooms :
    /\ ~rooms[rc].started
    /\ rooms[rc].world = 2
    /\ rooms[rc].world2BaseY = WORLD2_BASE_Y
    /\ Len(rooms[rc].players) = 2
    /\ \E i \in 1..2 : rooms[rc].players[i].hero # NoHero /\ rooms[rc].players[i].ready
    /\ rooms[rc].gameState.gameStatus = "waiting"

\* C18: a setWorld (or setLevel) issued for a started room is denied
\* silently: the room keeps its world, its runtime, its gameState and its
\* inputs.
C18_SetWorldDeniedWhenStarted ==
  [][\A s \in SocketIds, w \in WorldRequests :
       (/\ IsOpen(s)
        /\ BoundRoom(s)
        /\ rooms[sockets[s].roomCode].started
        /\ setWorld(s, w))
       => LET before == rooms[sockets[s].roomCode]
              after == rooms'[sockets[s].roomCode]
          IN /\ after.world = before.world
             /\ after.worldRuntime = before.worldRuntime
             /\ after.gameState = before.gameState
             /\ after.inputs = before.inputs]_vars

\* C15: between ticks and commands, room.deadUntil is positive exactly when
\* gameStatus is "dead".
C15_DeadlineIffDead ==
  \A rc \in DOMAIN rooms :
    (rooms[rc].deadUntil > 0) <=> (rooms[rc].gameState.gameStatus = "dead")

\* A player of world 1 has fallen out at the last tick: it is dead, the
\* round is dead and the respawn is due RESPAWN_DELAY_MS later.
C15_Witness ==
  \E rc \in DOMAIN rooms :
    /\ rooms[rc].world = 1
    /\ rooms[rc].gameState.gameStatus = "dead"
    /\ rooms[rc].deadUntil = now + RESPAWN_DELAY_MS
    /\ \E pid \in DOMAIN rooms[rc].gameState.players :
         /\ rooms[rc].gameState.players[pid].dead
         /\ rooms[rc].gameState.players[pid].y > Sub(rooms[rc].worldRuntime.groundY + 300)

\* The step is the tick that ends the respawn delay of the room.
DeathReset(rc) ==
  /\ rooms[rc].gameState.gameStatus = "dead"
  /\ rooms[rc].deadUntil # 0
  /\ now' >= rooms[rc].deadUntil
  /\ \E e \in ElapsedMs : stepRoom(rc, e)

\* The step is a setWorld (or setLevel) request.
WorldChange ==
  \E s \in SocketIds, w \in WorldRequests : IsOpen(s) /\ setWorld(s, w)

\* The step is a startGameNow request that was not denied.
Restart ==
  \E s \in SocketIds :
    IsOpen(s) /\ startGameNowReply(s) # "startDenied" /\ startGameNow(s)

\* C16 as stated: keyCollected, once true, turns false only by the round
\* reset after a death or by a world change; no tick, join, disconnect,
\* grace expiry, selectHero, setReady, startGameNow or playerInput resets
\* it.
C16_KeyLatchedUntilDeathOrWorldChange ==
  [][\A rc \in DOMAIN rooms :
       (/\ rooms[rc].gameState.keyCollected
        /\ rc \in DOMAIN rooms'
        /\ ~rooms'[rc].gameState.keyCollected)
       => (DeathReset(rc) \/ WorldChange)]_vars

\* C16 as amended: keyCollected, once true, turns false only by the round
\* reset after a death, by a world change, or by a startGameNow that is
\* accepted again and restarts the round.
C16_KeyLatchedWithinRound ==
  [][\A rc \in DOMAIN rooms :
       (/\ rooms[rc].gameState.keyCollected
        /\ rc \in DOMAIN rooms'
        /\ ~rooms'[rc].gameState.keyCollected)
       => (DeathReset(rc) \/ WorldChange \/ Restart)]_vars

\* The key is collected and the last tick found no player touching it.
C16_Witness ==
  \E rc \in DOMAIN rooms :
    /\ rooms[rc].gameState.keyCollected
    /\ rooms[rc].gameState.gameStatus = "playing"
    /\ rooms[rc].lastStepAt = now
    /\ now > 1000
    /\ \A pid \in DOMAIN rooms[rc].gameState.players :
         ~intersects(rooms[rc].gameState.players[pid], key(rooms[rc].worldRuntime))

\* Every present LobbyPlayer of the room has a living PlayerState whose
\* rectangle intersects the door, and there is at least one.
AllAtDoor(room) ==
  /\ Len(PresentPlayers(room)) > 0
  /\ \A i \in 1..Len(PresentPlayers(room)) :
       /\ Alive(room, PresentPlayers(room)[i])
       /\ intersects(room.gameState.players[PresentPlayers(room)[i]],
                     door(room.worldRuntime))

\* A living present player of a world-2 room touches a danger button.
HazardContact(room) ==
  /\ room.world = 2
  /\ \E i \in 1..Len(PresentPlayers(room)) :
       /\ Alive(room, PresentPlayers(room)[i])
       /\ \E b \in 1..Len(dangerButtons(room.worldRuntime)) :
            intersects(room.gameState.players[PresentPlayers(room)[i]],
                       dangerButtons(room.worldRuntime)[b])

AllAtSpawn(room) ==
  \A pid \in DOMAIN room.gameState.players :
    LET slot == playerIndexOf(room, pid)
    IN /\ HasKey(room.players, pid)
       /\ Alive(room, pid)
       /\ room.gameState.players[pid].x = Sub(100 + (slot - 1) * 80)
       /\ room.gameState.players[pid].y
            = Sub(room.worldRuntime.firstPlatformY - PLAYER_HEIGHT)
       /\ room.gameState.players[pid].vx = 0
       /\ room.gameState.players[pid].vy = 0

\* C19: in world 2 a tick in which a living player touches a danger button
\* ends with gameStatus "dead"; of the ticks that follow, those before
\* deadUntil leave the round dead and the first one at or after deadUntil
\* resets it (every player at its spawn point and alive, keyCollected
\* false, gameStatus "playing"); and as long as the room exists a dead
\* round eventually plays again.
C19_DeathAndRespawn ==
  /\ [][\A rc \in DOMAIN rooms, e \in ElapsedMs :
          (/\ rooms[rc].started
           /\ rooms[rc].world = 2
           /\ stepRoom(rc, e))
          => IF rooms[rc].gameState.gameStatus # "dead"
             THEN HazardContact(rooms'[rc])
                  => /\ rooms'[rc].gameState.gameStatus = "dead"
                     /\ rooms'[rc].deadUntil = now' + RESPAWN_DELAY_MS
             ELSE IF now' >= rooms[rc].deadUntil
             THEN /\ rooms'[rc].gameState.gameStatus = "playing"
                  /\ ~rooms'[rc].gameState.keyCollected
                  /\ AllAtSpawn(rooms'[rc])
             ELSE /\ rooms'[rc].gameState.gameStatus = "dead"
                  /\ rooms'[rc].deadUntil = rooms[rc].deadUntil]_vars
  /\ \A rc \in RoomCodes :
       (rc \in DOMAIN rooms /\ rooms[rc].gameState.gameStatus = "dead")
       ~> (rc \notin DOMAIN rooms \/ rooms[rc].gameState.gameStatus = "playing")

\* A round of world 2 that was reset by the last tick: "ann" is back at
\* the spawn point of slot 1, which no scene of world 2 starts from.
C19_Witness ==
  \E rc \in DOMAIN rooms :
    /\ rooms[rc].world = 2
    /\ rooms[rc].lastStepAt = now
    /\ rooms[rc].gameState.gameStatus = "playing"
    /\ ~rooms[rc].gameState.keyCollected
    /\ rooms[rc].deadUntil = 0
    /\ "ann" \in DOMAIN rooms[rc].gameState.players
    /\ AllAtSpawn(rooms[rc])

\* C20: in the gameState snapshot of every room every player lies inside
\* the world horizontally: 0 <= x <= world.width - width.
C20_PlayersInsideWorld ==
  \A rc \in DOMAIN rooms :
    \A pid \in DOMAIN gameStateSnapshot(rooms[rc]).players :
      LET p == gameStateSnapshot(rooms[rc]).players[pid]
      IN /\ 0 <= p.x
         /\ p.x <= Sub(rooms[rc].worldRuntime.width) - p.width

\* The last tick stopped a player at an edge of the world: the player is
\* asked to walk further out and stands exactly at x = 0 or at
\* x = world.width - width.
C20_Witness ==
  \E rc \in DOMAIN rooms :
    /\ rooms[rc].started
    /\ rooms[rc].lastStepAt = now
    /\ \E pid \in DOMAIN rooms[rc].gameState.players :
         LET p == rooms[rc].gameState.players[pid]
         IN /\ pid \in DOMAIN rooms[rc].inputs
            /\ \/ rooms[rc].inputs[pid].left /\ p.x = 0
               \/ /\ rooms[rc].inputs[pid].right
                  /\ p.x = Sub(rooms[rc].worldRuntime.width) - p.width

Jumper == rooms["R1"].gameState.players["ann"]

\* C22 as stated: one tick after the jump frame the player has vy = -14 and
\* is off the ground; 28 ticks later it stands on the platform again.
C22_JumpLandsAfter28 ==
  /\ Ticks = 1 => Jumper.vy = jumpForce /\ ~Jumper.onGround
  /\ Ticks = 29 => Jumper.onGround /\ Jumper.vy = 0

\* C22: one tick after the jump frame the player has vy = -13.4 (the jump
\* force and one tick of gravity) and is off the ground; 45 ticks later it
\* stands at rest on the platform it jumped from.
C22_JumpLandsAfter45 ==
  /\ Ticks = 1 => Jumper.vy = jumpForce + gravity /\ ~Jumper.onGround
  /\ Ticks = 46 => /\ Jumper.onGround
                   /\ Jumper.vy = 0
                   /\ Jumper.x = Sub(100)
                   /\ Jumper.y = Sub(rooms["R1"].worldRuntime.firstPlatformY
                                     - PLAYER_HEIGHT)

\* The player has landed, 45 ticks after the tick of the jump, with no
\* frame held.
C22_Witness ==
  /\ Ticks = 46
  /\ rooms["R1"].inputs["ann"] = NoInput
  /\ Jumper.onGround
  /\ Jumper.vy = 0

\* C23: sanitizeName is idempotent and bounded: the name a setPlayerName
\* request stores is sanitizeName of the name sent, it has at most 20
\* characters, and sanitizeName leaves it as it is.
C23_SanitizeIdempotent ==
  [][\A s \in SocketIds, name \in NameInputs :
       (/\ IsOpen(s)
        /\ BoundMember(s)
        /\ sanitizeName(name) # <<>>
        /\ setPlayerName(s, name))
       => LET stored == NameOf(rooms'[sockets[s].roomCode], sockets[s].playerId)
          IN /\ stored = sanitizeName(name)
             /\ Len(stored) <= 20
             /\ sanitizeName(stored) = stored]_vars

\* The step is the expiry of a grace timer that removes the last player of
\* the room rc.
LastPlayerExpiry(rc) ==
  \E t \in timers :
    /\ t.roomCode = rc
    /\ t.playerId \notin DOMAIN playerToSocket
    /\ Members(rooms[rc]) = {t.playerId}
    /\ graceExpiry(t)

\* C24: every room of the table has at least one player, and no interval
\* fires for a room that is not in the table; a room leaves the table
\* exactly in the grace-timer expiry that removes its last player; and a
\* tick is a tick of a room of the table, which leaves the other rooms and
\* the table's keys as they are.
C24_RoomLifetime ==
  /\ [](/\ \A rc \in DOMAIN rooms : Len(rooms[rc].players) >= 1
        /\ \A rc \in RoomCodes \ DOMAIN rooms, e \in ElapsedMs :
             ~ENABLED stepRoom(rc, e))
  /\ [][\A rc \in DOMAIN rooms :
          /\ (rc \notin DOMAIN rooms') <=> LastPlayerExpiry(rc)
          /\ \A e \in ElapsedMs :
               (TickDue(rc) /\ now' = now + e /\ stepRoom(rc, e))
               => /\ DOMAIN rooms' = DOMAIN rooms
                  /\ \A other \in DOMAIN rooms \ {rc} : rooms'[other] = rooms[other]]_vars

\* The room of the round is gone from the table after ticks ran for it.
C24_Witness ==
  /\ "R1" \notin DOMAIN rooms
  /\ now > 1000

\* C25: in the gameState snapshot of every room the id of each player is
\* its position in playerOrder (counted from 1) and its color is the color
\* of that slot, colors[(id - 1) mod 4].
C25_ColorAndIdFollowSlot ==
  \A rc \in DOMAIN rooms :
    \A pid \in DOMAIN gameStateSnapshot(rooms[rc]).players :
      LET p == gameStateSnapshot(rooms[rc]).players[pid]
      IN /\ p.id = playerIndexOf(rooms[rc], pid)
         /\ p.color = colors[((p.id - 1) % Len(colors)) + 1]

\* The step is an input message with frame f from a connection bound to
\* player p of room rc.
InputFrom(rc, p, f) ==
  \E s \in SocketIds, ht \in HeightInputs :
    /\ IsOpen(s)
    /\ sockets[s].roomCode = rc
    /\ sockets[s].playerId = p
    /\ updateInput(s, f, ht)

\* C26: an input message for a room that is not started changes nothing; in
\* a started room it stores its frame for the sender and leaves the frames
\* of the other players alone; and the frame stored for a player of a
\* started room stays as it is in every step (ticks included) that is not an
\* input message of that player.
C26_InputLastWriteWins ==
  [][\A rc \in DOMAIN rooms :
       /\ \A p \in PlayerIds, f \in GameFrames :
            InputFrom(rc, p, f)
            => IF ~rooms[rc].started THEN rooms' = rooms
               ELSE /\ rooms'[rc].inputs[p] = f
                    /\ \A q \in DOMAIN rooms[rc].inputs \ {p} :
                         /\ q \in DOMAIN rooms'[rc].inputs
                         /\ rooms'[rc].inputs[q] = rooms[rc].inputs[q]
       /\ \A p \in DOMAIN rooms[rc].inputs :
            (/\ rooms[rc].started
             /\ rc \in DOMAIN rooms'
             /\ p \in Members(rooms'[rc])
             /\ \A f \in GameFrames : ~InputFrom(rc, p, f))
            => /\ p \in DOMAIN rooms'[rc].inputs
               /\ rooms'[rc].inputs[p] = rooms[rc].inputs[p]]_vars

\* C27: a joinRoom by a player already in the room clears the binding of
\* every other connection bound to that player, leaves the player's entry
\* of the room and its slot as they were, and leaves the new connection
\* as the only one registered for the player; a disconnect or a command
\* on a connection without binding changes no room and arms no timer.
Reconnect(s, rc, p) ==
  /\ HasKey(rooms[rc].players, p)
  /\ joinRoom(s, rc, p)

StaleCommand(s) ==
  \/ disconnect(s)
  \/ \E w \in WorldRequests : setWorld(s, w)
  \/ \E hero \in Heroes : selectHero(s, hero)
  \/ \E ready \in BOOLEAN : setReady(s, ready)
  \/ startGameNow(s)

Overlapping(room, a, b) ==
  /\ a # b
  /\ ~room.gameState.players[b].dead
  /\ intersects(room.gameState.players[a], room.gameState.players[b])

OthersUntouched(rc, S) ==
  \A O \in DOMAIN rooms[rc].gameState.players \ {S} :
    LET before == rooms[rc].gameState.players[O]
        after == rooms'[rc].gameState.players[O]
    IN /\ after.x = before.x /\ after.y = before.y
       /\ after.vx = before.vx /\ after.vy = before.vy
       /\ after.onGround = before.onGround

\* S rises into the underside of O.
HitsUnderside(room, S, O) ==
  LET self == room.gameState.players[S]
      other == room.gameState.players[O]
  IN /\ self.vy < 0
     /\ PrevYOf(self) >= PrevYOf(other) + other.height - Sub(8)
     /\ self.y <= other.y + other.height

C28_OnlySelfLowerNeverDown ==
  [][\A rc \in DOMAIN rooms : \A S \in DOMAIN rooms[rc].gameState.players :
       Resolve(rc, S)
       => /\ OthersUntouched(rc, S)
          /\ \A a, b \in DOMAIN rooms[rc].gameState.players :
               (/\ S \in {a, b}
                /\ Overlapping(rooms[rc], a, b)
                /\ rooms[rc].gameState.players[a].y > rooms[rc].gameState.players[b].y)
               => rooms'[rc].gameState.players[a].y <= rooms[rc].gameState.players[a].y]_vars

\* C28, amended: as above, except that S rising into the underside of O is
\* put just below O with vy 0.
C28_OnlySelfLowerDownOnlyUnderside ==
  [][\A rc \in DOMAIN rooms : \A S \in DOMAIN rooms[rc].gameState.players :
       Resolve(rc, S)
       => /\ OthersUntouched(rc, S)
          /\ \A a, b \in DOMAIN rooms[rc].gameState.players :
               (/\ S \in {a, b}
                /\ Overlapping(rooms[rc], a, b)
                /\ rooms[rc].gameState.players[a].y > rooms[rc].gameState.players[b].y)
               => \/ rooms'[rc].gameState.players[a].y <= rooms[rc].gameState.players[a].y
                  \/ /\ a = S
                     /\ HitsUnderside(rooms[rc], a, b)
                     /\ rooms'[rc].gameState.players[a].y
                          = rooms[rc].gameState.players[b].y
                            + rooms[rc].gameState.players[b].height
                     /\ rooms'[rc].gameState.players[a].vy = 0]_vars

\* "7" rose into the underside of "ann" and was put just below it.
C28_Witness ==
  /\ "R1" \in DOMAIN rooms
  /\ {"ann", "7"} \subseteq DOMAIN rooms["R1"].gameState.players
  /\ LET self == rooms["R1"].gameState.players["7"]
         other == rooms["R1"].gameState.players["ann"]
     IN /\ self.y = other.y + other.height
        /\ self.x < other.x + other.width /\ self.x + self.width > other.x
        /\ self.vy = 0
        /\ PrevYOf(self) > self.y
        /\ other.vy = 0 /\ other.onGround

\* C29: world2BaseY of every room is between 500 and 1400 and, in world 2,
\* worldRuntime.groundY is world2BaseY + 40; world2BaseY changes only in
\* world 2 and by 2 or more, and a player standing on the ground before the
\* change stands on the ground after it.
StandsOnGround(room, pid) ==
  LET p == room.gameState.players[pid]
  IN p.onGround /\ p.y + p.height = Sub(room.worldRuntime.groundY)

BaseYStep(rc) ==
  LET before == rooms[rc]
      after == rooms'[rc]
      far == IF after.world2BaseY >= before.world2BaseY
             THEN after.world2BaseY - before.world2BaseY
             ELSE before.world2BaseY - after.world2BaseY
  IN after.world2BaseY # before.world2BaseY
     => /\ far >= 2
        /\ before.world = 2 /\ after.world = 2
        /\ \E ht \in HeightReports :
             after.world2BaseY = normalizeWorld2BaseYFromPayload(ht)
        /\ \A pid \in DOMAIN before.gameState.players :
             StandsOnGround(before, pid)
             => pid \in DOMAIN after.gameState.players /\ StandsOnGround(after, pid)

C29_World2BaseY ==
  /\ [](\A rc \in DOMAIN rooms :
          /\ rooms[rc].world2BaseY >= 500 /\ rooms[rc].world2BaseY <= 1400
          /\ rooms[rc].world = 2
             => rooms[rc].worldRuntime.groundY = rooms[rc].world2BaseY + 40)
  /\ [][\A rc \in DOMAIN rooms \cap DOMAIN rooms' : BaseYStep(rc)]_vars

\* A report moved the base by exactly 2 to 622, and a player stands on the
\* ground of world 2 at the new height.
C29_Witness ==
  \E rc \in DOMAIN rooms :
    /\ rooms[rc].world = 2
    /\ rooms[rc].world2BaseY = 622
    /\ \E pid \in DOMAIN rooms[rc].gameState.players :
         /\ StandsOnGround(rooms[rc], pid)
         /\ rooms[rc].gameState.players[pid].y = Sub(622 + 40 - PLAYER_HEIGHT)

\* C30: stepRoom leaves a room that is not started as it is; on a started
\* room one tick is the world-runtime update, then applyPlayerStep for the
\* present players in playerOrder order, then evaluateGameState, then
\* emitGameState, in one step; the interval exists only for a started room,
\* from the step of startGameNow on, and a started room stays started.
TickInOrder(room, t) ==
  LET dt == IF room.lastStepAt # 0 THEN dtScale(t - room.lastStepAt) ELSE 100
      order == PresentPlayers(room)
      world == updateWorldRuntime([room EXCEPT !.lastStepAt = t], dt)
      First(r) == IF Len(order) >= 1 THEN applyPlayerStep(r, order[1], dt, t) ELSE r
      Second(r) == IF Len(order) >= 2 THEN applyPlayerStep(r, order[2], dt, t) ELSE r
      Evaluated(r) == evaluateGameState(r, t)
  IN TheOne({emitGameState(e) :
               e \in {Evaluated(s) :
                        s \in {Second(f) : f \in {First(w) : w \in {world}}}}})

C30_TickOrder ==
  /\ [](\A rc \in DOMAIN rooms :
          /\ rooms[rc].loopHandle => rooms[rc].started
          /\ ~rooms[rc].started
             => \A e \in ElapsedMs : TickedRoom(rooms[rc], now + e) = rooms[rc])
  /\ [][\A rc \in DOMAIN rooms \cap DOMAIN rooms' :
          /\ (now' # now /\ rooms[rc].loopHandle)
             => IF rooms[rc].started
                THEN rooms'[rc] = TickInOrder(rooms[rc], now')
                ELSE rooms' = rooms
          /\ rooms[rc].started => rooms'[rc].started
          /\ (~rooms[rc].started /\ rooms'[rc].started)
             => /\ rooms'[rc].loopHandle
                /\ rooms'[rc].lastStepAt = now
                /\ rooms'[rc].gameState.gameStatus = "playing"]_vars

\* Two ticks after the start, with "ann" walking right and "7" walking
\* left: "ann" was stepped first and pushed back from where "7" stood, then
\* "7" was stepped and pushed back from where "ann" had stopped.
C30_Witness ==
  /\ "R1" \in DOMAIN rooms
  /\ rooms["R1"].started /\ rooms["R1"].loopHandle
  /\ rooms["R1"].lastStepAt = now /\ now = 2800
  /\ {"ann", "7"} \subseteq DOMAIN rooms["R1"].gameState.players
  /\ rooms["R1"].gameState.players["ann"].x = 12250
  /\ rooms["R1"].gameState.players["7"].x = 16750

\* C31: a setWorld from a player that is not the host changes no room; one
\* from the host sets the world to 2 for the values 2, map2 and world2 and
\* to 1 for every other value, and leaves the round without key, without
\* players at the door, without stored frames, every PlayerState fresh at
\* its spawn point.
HostSelection(s, w, worldNum) ==
  LET rc == sockets[s].roomCode
      before == rooms[rc]
      after == rooms'[rc]
  IN IF before.hostId # sockets[s].playerId THEN rooms' = rooms
     ELSE /\ after.world = worldNum
          /\ after.worldRuntime = cloneWorldRuntime(worldNum, before.world2BaseY)
          /\ after.gameState.world = worldNum
          /\ ~after.gameState.keyCollected
          /\ after.gameState.playersAtDoor = <<>>
          /\ after.inputs = EmptyMap
          /\ after.deadUntil = 0
          /\ DOMAIN after.gameState.players = KeySet(before.players)
          /\ \A pid \in DOMAIN after.gameState.players :
               after.gameState.players[pid]
                 = createPlayerGameState(pid, playerIndexOf(after, pid), after)

C31_HostOnlyPlainValues ==
  [][\A s \in SocketIds, w \in WorldValueInputs :
       (IsOpen(s) /\ BoundRoom(s) /\ setWorld(s, w))
       => HostSelection(s, w, IF w \in {<<"2">>, Map2, World2} THEN 2 ELSE 1)]_vars

\* C31, amended: the value is lower-cased and trimmed before it is compared
\* with 2, map2 and world2.
C31_HostOnlyNormalizedValues ==
  [][\A s \in SocketIds, w \in WorldValueInputs :
       (IsOpen(s) /\ BoundRoom(s) /\ setWorld(s, w))
       => HostSelection(s, w,
                        IF trim(toLowerCase(w)) \in {<<"2">>, Map2, World2}
                        THEN 2 ELSE 1)]_vars

\* The host of the lobby has moved the room to world 2: nothing else takes
\* a room that is not started out of world 1.
C31_Witness ==
  /\ "R1" \in DOMAIN rooms
  /\ ~rooms["R1"].started
  /\ rooms["R1"].world = 2
  /\ rooms["R1"].gameState.gameStatus = "waiting"
  /\ rooms["R1"].inputs = EmptyMap

\* C32: in a started room the spawn rectangle of each of the slots 1..4
\* touches no danger button and stands on a platform or on the ground, and
\* a round in which nobody sends input is never "dead".
SpawnOf(room, slot) == createPlayerGameState(NoId, slot, room)

TouchesDanger(room, p) ==
  \E i \in 1..Len(dangerButtons(room.worldRuntime)) :
    intersects(p, dangerButtons(room.worldRuntime)[i])

StandsOnSomething(room, p) ==
  \/ \E i \in 1..Len(platforms(room.worldRuntime)) :
       LET plat == platforms(room.worldRuntime)[i]
       IN /\ p.y + p.height = plat.y
          /\ p.x < plat.x + plat.width
          /\ p.x + p.width > plat.x
  \/ /\ room.worldRuntime.hasGlobalFloor
     /\ p.y + p.height = Sub(room.worldRuntime.groundY)

C32_SpawnClearOfHazards ==
  \A rc \in DOMAIN rooms :
    rooms[rc].started
    => /\ \A slot \in 1..4 :
            /\ ~TouchesDanger(rooms[rc], SpawnOf(rooms[rc], slot))
            /\ StandsOnSomething(rooms[rc], SpawnOf(rooms[rc], slot))
       /\ rooms[rc].gameState.gameStatus # "dead"

\* C33: an armed grace timer leaves the set of timers only when it fires or
\* in a step that registers a connection for its player, and a joinRoom
\* answered with joinDenied leaves every timer armed.
C33_CancelledOnlyBySuccess ==
  [][/\ \A t \in timers \ timers' :
          \/ graceExpiry(t)
          \/ /\ t.playerId \in DOMAIN playerToSocket'
             /\ \E s \in playerToSocket'[t.playerId] :
                  /\ s \in DOMAIN sockets'
                  /\ sockets'[s].open
                  /\ sockets'[s].playerId = t.playerId
     /\ \A s \in SocketIds, rc \in RoomCodeInputs, p \in TwoPlayers :
          (joinRoom(s, rc, p) /\ joinRoomReply(rc, p) = "joinDenied")
          => timers' = timers /\ pendingDisconnects' = pendingDisconnects]_vars

\* C34: once every connection the server will ever accept is closed, the
\* table of rooms becomes empty (and with it no interval is left running).
AllClosedForGood ==
  /\ Len(sockets) = MaxSockets
  /\ \A s \in DOMAIN sockets : ~sockets[s].open

C34_EventuallyNoRooms == AllClosedForGood ~> (rooms = EmptyMap)

\* C35: while a round stays dead its deadUntil does not change, and the
\* first tick at or after deadUntil resets the round.
FellOut(rc) ==
  \E pid \in DOMAIN rooms[rc].gameState.players :
    /\ ~rooms[rc].gameState.players[pid].dead
    /\ pid \in DOMAIN rooms'[rc].gameState.players
    /\ rooms'[rc].gameState.players[pid].dead

C35_DeadlineFixedByFirstDeath ==
  [][\A rc \in DOMAIN rooms \cap DOMAIN rooms' :
       rooms[rc].gameState.gameStatus = "dead"
       => /\ rooms'[rc].gameState.gameStatus = "dead"
             => rooms'[rc].deadUntil = rooms[rc].deadUntil
          /\ (now' # now /\ now' >= rooms[rc].deadUntil)
             => /\ rooms'[rc].gameState.gameStatus = "playing"
                /\ rooms'[rc].deadUntil = 0]_vars

\* C35, amended: while a round stays dead its deadUntil changes only in a
\* tick in which a further player falls out of the world, to that tick's
\* time + RESPAWN_DELAY_MS; the first tick at or after deadUntil in which
\* nobody falls out resets the round.
C35_DeadlineMovedOnlyByFallOut ==
  [][\A rc \in DOMAIN rooms \cap DOMAIN rooms' :
       rooms[rc].gameState.gameStatus = "dead"
       => IF now' # now /\ FellOut(rc)
          THEN /\ rooms'[rc].gameState.gameStatus = "dead"
               /\ rooms'[rc].deadUntil = now' + RESPAWN_DELAY_MS
          ELSE /\ rooms'[rc].gameState.gameStatus = "dead"
                  => rooms'[rc].deadUntil = rooms[rc].deadUntil
               /\ (now' # now /\ now' >= rooms[rc].deadUntil)
                  => /\ rooms'[rc].gameState.gameStatus = "playing"
                     /\ rooms'[rc].deadUntil = 0]_vars

\* Both players have fallen out, "7" at least one tick after "ann": the
\* round is dead and its deadline is a full delay after the tick that has
\* just run.
C35_Witness ==
  /\ "R1" \in DOMAIN rooms
  /\ rooms["R1"].gameState.gameStatus = "dead"
  /\ {"ann", "7"} \subseteq DOMAIN rooms["R1"].gameState.players
  /\ rooms["R1"].gameState.players["ann"].dead
  /\ rooms["R1"].gameState.players["7"].dead
  /\ rooms["R1"].deadUntil = rooms["R1"].lastStepAt + RESPAWN_DELAY_MS

C37_HostIsFirstMember ==
  \A rc \in DOMAIN rooms :
    /\ rooms[rc].hostId = rooms[rc].playerOrder[1]
    /\ rooms[rc].hostId = ObjectKeys(rooms[rc].players)[1]

\* ------------------------------------------------------------------- C38
\* C38: a room never has more than one live interval calling stepRoom, and
\* it has one exactly when loopHandle is set; a startGameNow that is
\* accepted while the room is already started creates no interval and
\* leaves the time of the last tick alone.
C38_OneLoopPerRoom ==
  /\ [](\A rc \in DOMAIN rooms :
          /\ rooms[rc].intervals <= 1
          /\ rooms[rc].loopHandle <=> rooms[rc].intervals = 1)
  /\ [][\A s \in SocketIds :
          (/\ IsOpen(s) /\ BoundRoom(s)
           /\ rooms[sockets[s].roomCode].started
           /\ startGameNowReply(s) # "startDenied"
           /\ startGameNow(s))
          => /\ rooms'[sockets[s].roomCode].intervals
                  = rooms[sockets[s].roomCode].intervals
             /\ rooms'[sockets[s].roomCode].lastStepAt
                  = rooms[sockets[s].roomCode].lastStepAt]_vars

\* The room was started, ticked, and started again by its host: every
\* PlayerState is new (it has not been stepped yet), the last tick is the
\* one before the second start, and there is still one interval.
C38_Witness ==
  /\ "R1" \in DOMAIN rooms
  /\ rooms["R1"].started
  /\ rooms["R1"].lastStepAt > 1000
  /\ rooms["R1"].intervals = 1
  /\ \A pid \in DOMAIN rooms["R1"].gameState.players :
       rooms["R1"].gameState.players[pid].prevY = <<>>

\* ------------------------------------------------------------------- C39
\* The room with every dead PlayerState put far below the world, where no
\* living player can touch it.
WithDeadAside(room) ==
  [room EXCEPT !.gameState.players =
     [pid \in DOMAIN @ |->
        IF @[pid].dead THEN [@[pid] EXCEPT !.y = @ + Sub(100000)] ELSE @[pid]]]

\* C39: a room with a dead PlayerState has gameStatus "dead"; a step
\* leaves a dead player dead with the same position and velocity, unless it
\* starts the round anew with nobody dead; and a tick steps every living
\* player as it would with the dead players out of reach.
C39_DeadPlayers ==
  /\ [](\A rc \in DOMAIN rooms :
          (\E pid \in DOMAIN rooms[rc].gameState.players :
             rooms[rc].gameState.players[pid].dead)
          => rooms[rc].gameState.gameStatus = "dead")
  /\ [][\A rc \in DOMAIN rooms \cap DOMAIN rooms' :
          \A pid \in DOMAIN rooms[rc].gameState.players
                       \cap DOMAIN rooms'[rc].gameState.players :
            LET before == rooms[rc].gameState.players[pid]
                after == rooms'[rc].gameState.players[pid]
            IN /\ before.dead
                  => \/ /\ after.dead
                        /\ after.x = before.x /\ after.y = before.y
                        /\ after.vx = before.vx /\ after.vy = before.vy
                     \/ \A q \in DOMAIN rooms'[rc].gameState.players :
                          ~rooms'[rc].gameState.players[q].dead
               /\ (~before.dead /\ now' # now /\ rooms[rc].loopHandle)
                  => after = TickedRoom(WithDeadAside(rooms[rc]), now')
                               .gameState.players[pid]]_vars

\* "ann" has fallen out of the world and "7", still alive, is falling
\* through the place where she stopped.
C39_Witness ==
  /\ "R1" \in DOMAIN rooms
  /\ {"ann", "7"} \subseteq DOMAIN rooms["R1"].gameState.players
  /\ rooms["R1"].gameState.gameStatus = "dead"
  /\ rooms["R1"].gameState.players["ann"].dead
  /\ ~rooms["R1"].gameState.players["7"].dead
  /\ rooms["R1"].lastStepAt = now
  /\ intersects(rooms["R1"].gameState.players["7"],
                rooms["R1"].gameState.players["ann"])

\* ------------------------------------------------------------------- C40
\* The step is a selectHero of socket s that was not denied and gives its
\* player another hero, or none.
HeroChange(s) ==
  /\ IsOpen(s) /\ BoundMember(s)
  /\ \E hero \in HeroInputs :
       /\ hero # Entry(rooms[sockets[s].roomCode].players, sockets[s].playerId).hero
       /\ selectHeroReply(s, hero) # "heroDenied"
       /\ selectHero(s, hero)

\* C40: every LobbyPlayer that is ready has a hero; a setReady from a
\* player without a hero is answered with readyDenied and changes nothing;
\* and a selectHero that changes or clears the hero leaves the player not
\* ready.
C40_ReadyHasHero ==
  /\ [](\A rc \in DOMAIN rooms : \A i \in 1..Len(rooms[rc].players) :
          rooms[rc].players[i].ready => rooms[rc].players[i].hero # NoHero)
  /\ [][\A s \in SocketIds :
          /\ (/\ IsOpen(s) /\ BoundMember(s)
              /\ Entry(rooms[sockets[s].roomCode].players,
                       sockets[s].playerId).hero = NoHero
              /\ \E ready \in BOOLEAN : setReady(s, ready))
             => (setReadyReply(s) = "readyDenied" /\ rooms' = rooms)
          /\ HeroChange(s)
             => ~Entry(rooms'[sockets[s].roomCode].players,
                       sockets[s].playerId).ready]_vars

\* "ann", who was ready as the knight, has cleared her hero and is not
\* ready any more, while "7" is still ready.
C40_Witness ==
  /\ "R1" \in DOMAIN rooms
  /\ Entry(rooms["R1"].players, "ann").hero = NoHero
  /\ ~Entry(rooms["R1"].players, "ann").ready
  /\ Entry(rooms["R1"].players, "7").ready

====
